---- MODULE Spec2Model ----
(***************************************************************************)
(* Jarvis voice assistant: the command dispatcher (CommandProcessor), the  *)
(* handlers it routes to, and the SecurityManager's privacy store and      *)
(* encrypted secure storage.                                               *)
(*                                                                         *)
(* Strings are TLA+ strings handled character by character with Len,       *)
(* SubSeq and \o, so that lower-casing, trimming, regular-expression       *)
(* matching and the captures it produces are computed, not assumed.        *)
(***************************************************************************)
EXTENDS Integers, Sequences, FiniteSets, TLC

(***************************************************************************)
(* Python str helpers                                                      *)
(***************************************************************************)
UpperChars == "ABCDEFGHIJKLMNOPQRSTUVWXYZ"
LowerChars == "abcdefghijklmnopqrstuvwxyz"

CharAt(s, i) == SubSeq(s, i, i)

\* str.lower() on one character
LowerChar(c) ==
  IF \E k \in 1..26 : CharAt(UpperChars, k) = c
  THEN CharAt(LowerChars, CHOOSE k \in 1..26 : CharAt(UpperChars, k) = c)
  ELSE c

RECURSIVE Lower(_)
Lower(s) == IF s = "" THEN "" ELSE LowerChar(Head(s)) \o Lower(Tail(s))

\* the characters str.strip() removes
IsSpace(c) == c \in {" ", "\t", "\n", "\r"}

RECURSIVE LStrip(_)
LStrip(s) == IF s # "" /\ IsSpace(Head(s)) THEN LStrip(Tail(s)) ELSE s

RECURSIVE RStrip(_)
RStrip(s) ==
  IF s # "" /\ IsSpace(CharAt(s, Len(s))) THEN RStrip(SubSeq(s, 1, Len(s) - 1)) ELSE s

Strip(s) == RStrip(LStrip(s))

\* sub in s
Contains(s, sub) ==
  \E i \in 0..(Len(s) - Len(sub)) : SubSeq(s, i + 1, i + Len(sub)) = sub

StartsWith(s, prefix) ==
  Len(prefix) <= Len(s) /\ SubSeq(s, 1, Len(prefix)) = prefix

EndsWith(s, suffix) ==
  Len(suffix) <= Len(s) /\ SubSeq(s, Len(s) - Len(suffix) + 1, Len(s)) = suffix

\* s.split(sep, 1)[1] when sep occurs in s: the text after the first occurrence
AfterFirst(s, sep) ==
  LET i == CHOOSE k \in 0..(Len(s) - Len(sep)) :
             /\ SubSeq(s, k + 1, k + Len(sep)) = sep
             /\ \A j \in 0..(k - 1) : SubSeq(s, j + 1, j + Len(sep)) # sep
  IN SubSeq(s, i + Len(sep) + 1, Len(s))

(***************************************************************************)
(* Python values that are either None or a string (match.groups())         *)
(***************************************************************************)
None == [some |-> FALSE, v |-> ""]
Some(s) == [some |-> TRUE, v |-> s]
\* Python truthiness of an optional string: None and "" are falsy
Truthy(o) == o.some /\ o.v # ""

(***************************************************************************)
(* Regular expressions of the pattern table, as syntax trees, and re.match *)
(* as a backtracking matcher.  M returns every way the node can match at   *)
(* offset i, in the order Python's engine tries them, each with the        *)
(* captures made so far; re.match takes the first.                         *)
(***************************************************************************)
Lit(s) == [t |-> "lit", s |-> s]
DotPlus == [t |-> "dotplus"]
DotPlusLazy == [t |-> "dotpluslazy"]
SpacePlus == [t |-> "spaceplus"]
End == [t |-> "end"]
Opt(r) == [t |-> "opt", r |-> r]
Alt(rs) == [t |-> "alt", rs |-> rs]
Cat(rs) == [t |-> "cat", rs |-> rs]
Grp(n, name, r) == [t |-> "grp", n |-> n, name |-> name, r |-> r]

\* the capture groups of a pattern, as a set of [n, name]
RECURSIVE Groups(_)
Groups(r) ==
  CASE r.t = "grp" -> {[n |-> r.n, name |-> r.name]} \cup Groups(r.r)
    [] r.t = "opt" -> Groups(r.r)
    [] r.t \in {"alt", "cat"} -> UNION {Groups(r.rs[k]) : k \in 1..Len(r.rs)}
    [] OTHER -> {}

\* '.' matches any character except a newline
IsDot(c) == c # "\n"

\* offsets j > i such that s[i+1..j] consists of characters satisfying the class
RunEnds(s, i, dot) ==
  {j \in (i + 1)..Len(s) :
     \A k \in (i + 1)..j : IF dot THEN IsDot(CharAt(s, k)) ELSE IsSpace(CharAt(s, k))}

RECURSIVE Descending(_)
Descending(S) ==
  IF S = {} THEN <<>>
  ELSE LET m == CHOOSE x \in S : \A y \in S : y <= x IN <<m>> \o Descending(S \ {m})

RECURSIVE Ascending(_)
Ascending(S) ==
  IF S = {} THEN <<>>
  ELSE LET m == CHOOSE x \in S : \A y \in S : x <= y IN <<m>> \o Ascending(S \ {m})

RECURSIVE M(_, _, _, _)
RECURSIVE MCat(_, _, _, _, _)
RECURSIVE MAlt(_, _, _, _, _)
RECURSIVE MThen(_, _, _, _, _)

M(r, s, i, c) ==
  CASE r.t = "lit" ->
         IF i + Len(r.s) <= Len(s) /\ SubSeq(s, i + 1, i + Len(r.s)) = r.s
         THEN <<[i |-> i + Len(r.s), c |-> c]>> ELSE <<>>
    [] r.t = "dotplus" ->
         LET js == Descending(RunEnds(s, i, TRUE))
         IN [k \in 1..Len(js) |-> [i |-> js[k], c |-> c]]
    [] r.t = "dotpluslazy" ->
         LET js == Ascending(RunEnds(s, i, TRUE))
         IN [k \in 1..Len(js) |-> [i |-> js[k], c |-> c]]
    [] r.t = "spaceplus" ->
         LET js == Descending(RunEnds(s, i, FALSE))
         IN [k \in 1..Len(js) |-> [i |-> js[k], c |-> c]]
    [] r.t = "end" ->
         \* '$' matches at the end and before a final newline
         IF i = Len(s) \/ (i = Len(s) - 1 /\ CharAt(s, Len(s)) = "\n")
         THEN <<[i |-> i, c |-> c]>> ELSE <<>>
    [] r.t = "opt" -> M(r.r, s, i, c) \o <<[i |-> i, c |-> c]>>
    [] r.t = "alt" -> MAlt(r.rs, 1, s, i, c)
    [] r.t = "cat" -> MCat(r.rs, 1, s, i, c)
    [] r.t = "grp" ->
         LET inner == M(r.r, s, i, c)
         IN [k \in 1..Len(inner) |->
               [i |-> inner[k].i,
                c |-> [inner[k].c EXCEPT ![r.n] = Some(SubSeq(s, i + 1, inner[k].i))]]]

\* the alternatives rs[k..], in order
MAlt(rs, k, s, i, c) ==
  IF k > Len(rs) THEN <<>> ELSE M(rs[k], s, i, c) \o MAlt(rs, k + 1, s, i, c)

\* the sequence rs[k..]
MCat(rs, k, s, i, c) ==
  IF k > Len(rs) THEN <<[i |-> i, c |-> c]>>
  ELSE MThen(M(rs[k], s, i, c), 1, rs, k + 1, s)

\* continue each way `heads' matched with the rest of the sequence
MThen(heads, h, rs, k, s) ==
  IF h > Len(heads) THEN <<>>
  ELSE MCat(rs, k, s, heads[h].i, heads[h].c) \o MThen(heads, h + 1, rs, k, s)

NGroups(r) == Cardinality(Groups(r))

\* re.match(pattern, text): <<>> when there is no match, else <<captures>>
ReMatch(r, text) ==
  LET ms == M(r, text, 0, [n \in 1..NGroups(r) |-> None])
  IN IF ms = <<>> THEN <<>> ELSE <<ms[1].c>>

\* match.groupdict(): the named groups
GroupDict(r, caps) ==
  {[name |-> g.name, val |-> caps[g.n]] : g \in {x \in Groups(r) : x.name # ""}}

(***************************************************************************)
(* CommandProcessor.commands: the pattern table, in insertion order.       *)
(***************************************************************************)
commands ==
  <<
    \* 1 (line 79): r'what (time|day|date) is it'
    [pattern |-> Cat(<<Lit("what "), Grp(1, "", Alt(<<Lit("time"), Lit("day"), Lit("date")>>)), Lit(" is it")>>),
     handler |-> "_get_time_date"],
    \* 2 (line 80): r'(current|today\'s) (time|date)'
    [pattern |-> Cat(<<Grp(1, "", Alt(<<Lit("current"), Lit("today's")>>)), Lit(" "), Grp(2, "", Alt(<<Lit("time"), Lit("date")>>))>>),
     handler |-> "_get_time_date"],
    \* 3 (line 81): r'(tell me|what\'s) the (time|date)'
    [pattern |-> Cat(<<Grp(1, "", Alt(<<Lit("tell me"), Lit("what's")>>)), Lit(" the "), Grp(2, "", Alt(<<Lit("time"), Lit("date")>>))>>),
     handler |-> "_get_time_date"],
    \* 4 (line 84): r'(what\'s|what is|how\'s) the weather( like)?( today| now)?( in (?P<location>.+))?'
    [pattern |-> Cat(<<Grp(1, "", Alt(<<Lit("what's"), Lit("what is"), Lit("how's")>>)), Lit(" the weather"), Opt(Grp(2, "", Lit(" like"))), Opt(Grp(3, "", Alt(<<Lit(" today"), Lit(" now")>>))), Opt(Grp(4, "", Cat(<<Lit(" in "), Grp(5, "location", DotPlus)>>)))>>),
     handler |-> "_get_weather"],
    \* 5 (line 85): r'(weather|temperature|forecast)( in| for)? (?P<location>.+)'
    [pattern |-> Cat(<<Grp(1, "", Alt(<<Lit("weather"), Lit("temperature"), Lit("forecast")>>)), Opt(Grp(2, "", Alt(<<Lit(" in"), Lit(" for")>>))), Lit(" "), Grp(3, "location", DotPlus)>>),
     handler |-> "_get_weather"],
    \* 6 (line 88): r'(tell me|what\'s|what is)( about)?( my)? (system|pc|computer)( info| information)?'
    [pattern |-> Cat(<<Grp(1, "", Alt(<<Lit("tell me"), Lit("what's"), Lit("what is")>>)), Opt(Grp(2, "", Lit(" about"))), Opt(Grp(3, "", Lit(" my"))), Lit(" "), Grp(4, "", Alt(<<Lit("system"), Lit("pc"), Lit("computer")>>)), Opt(Grp(5, "", Alt(<<Lit(" info"), Lit(" information")>>)))>>),
     handler |-> "_get_system_info"],
    \* 7 (line 89): r'(system|pc|computer)( information| info)'
    [pattern |-> Cat(<<Grp(1, "", Alt(<<Lit("system"), Lit("pc"), Lit("computer")>>)), Grp(2, "", Alt(<<Lit(" information"), Lit(" info")>>))>>),
     handler |-> "_get_system_info"],
    \* 8 (line 90): r'(tell me|what\'s|what is)( about)?( my)? (cpu|processor)( info| information)?'
    [pattern |-> Cat(<<Grp(1, "", Alt(<<Lit("tell me"), Lit("what's"), Lit("what is")>>)), Opt(Grp(2, "", Lit(" about"))), Opt(Grp(3, "", Lit(" my"))), Lit(" "), Grp(4, "", Alt(<<Lit("cpu"), Lit("processor")>>)), Opt(Grp(5, "", Alt(<<Lit(" info"), Lit(" information")>>)))>>),
     handler |-> "_get_cpu_info"],
    \* 9 (line 91): r'(tell me|what\'s|what is)( about)?( my)? (memory|ram)( info| information)?'
    [pattern |-> Cat(<<Grp(1, "", Alt(<<Lit("tell me"), Lit("what's"), Lit("what is")>>)), Opt(Grp(2, "", Lit(" about"))), Opt(Grp(3, "", Lit(" my"))), Lit(" "), Grp(4, "", Alt(<<Lit("memory"), Lit("ram")>>)), Opt(Grp(5, "", Alt(<<Lit(" info"), Lit(" information")>>)))>>),
     handler |-> "_get_memory_info"],
    \* 10 (line 92): r'(tell me|what\'s|what is)( about)?( my)? (disk|storage|drive)( info| information)?'
    [pattern |-> Cat(<<Grp(1, "", Alt(<<Lit("tell me"), Lit("what's"), Lit("what is")>>)), Opt(Grp(2, "", Lit(" about"))), Opt(Grp(3, "", Lit(" my"))), Lit(" "), Grp(4, "", Alt(<<Lit("disk"), Lit("storage"), Lit("drive")>>)), Opt(Grp(5, "", Alt(<<Lit(" info"), Lit(" information")>>)))>>),
     handler |-> "_get_disk_info"],
    \* 11 (line 93): r'(tell me|what\'s|what is)( about)?( my)? (network|internet)( info| information)?'
    [pattern |-> Cat(<<Grp(1, "", Alt(<<Lit("tell me"), Lit("what's"), Lit("what is")>>)), Opt(Grp(2, "", Lit(" about"))), Opt(Grp(3, "", Lit(" my"))), Lit(" "), Grp(4, "", Alt(<<Lit("network"), Lit("internet")>>)), Opt(Grp(5, "", Alt(<<Lit(" info"), Lit(" information")>>)))>>),
     handler |-> "_get_network_info"],
    \* 12 (line 94): r'(tell me|what\'s|what is)( about)?( my)? (graphics|gpu|video card)( info| information)?'
    [pattern |-> Cat(<<Grp(1, "", Alt(<<Lit("tell me"), Lit("what's"), Lit("what is")>>)), Opt(Grp(2, "", Lit(" about"))), Opt(Grp(3, "", Lit(" my"))), Lit(" "), Grp(4, "", Alt(<<Lit("graphics"), Lit("gpu"), Lit("video card")>>)), Opt(Grp(5, "", Alt(<<Lit(" info"), Lit(" information")>>)))>>),
     handler |-> "_get_graphics_info"],
    \* 13 (line 95): r'(show|list|what) (processes|applications)( are)? running'
    [pattern |-> Cat(<<Grp(1, "", Alt(<<Lit("show"), Lit("list"), Lit("what")>>)), Lit(" "), Grp(2, "", Alt(<<Lit("processes"), Lit("applications")>>)), Opt(Grp(3, "", Lit(" are"))), Lit(" running")>>),
     handler |-> "_get_running_processes"],
    \* 14 (line 96): r'(show|list|what) (applications|programs|software)( are)? installed'
    [pattern |-> Cat(<<Grp(1, "", Alt(<<Lit("show"), Lit("list"), Lit("what")>>)), Lit(" "), Grp(2, "", Alt(<<Lit("applications"), Lit("programs"), Lit("software")>>)), Opt(Grp(3, "", Lit(" are"))), Lit(" installed")>>),
     handler |-> "_get_installed_applications"],
    \* 15 (line 97): r'(tell me|what\'s|what is)( the)? (system|pc|computer) health'
    [pattern |-> Cat(<<Grp(1, "", Alt(<<Lit("tell me"), Lit("what's"), Lit("what is")>>)), Opt(Grp(2, "", Lit(" the"))), Lit(" "), Grp(3, "", Alt(<<Lit("system"), Lit("pc"), Lit("computer")>>)), Lit(" health")>>),
     handler |-> "_get_system_health"],
    \* 16 (line 98): r'(search|find)( for)?( files)? (?P<pattern>.+?)( in| within)? (?P<path>.+)'
    [pattern |-> Cat(<<Grp(1, "", Alt(<<Lit("search"), Lit("find")>>)), Opt(Grp(2, "", Lit(" for"))), Opt(Grp(3, "", Lit(" files"))), Lit(" "), Grp(4, "pattern", DotPlusLazy), Opt(Grp(5, "", Alt(<<Lit(" in"), Lit(" within")>>))), Lit(" "), Grp(6, "path", DotPlus)>>),
     handler |-> "_search_files"],
    \* 17 (line 99): r'(analyze|examine)( the)? (files|file types)( in| within)? (?P<directory>.+)'
    [pattern |-> Cat(<<Grp(1, "", Alt(<<Lit("analyze"), Lit("examine")>>)), Opt(Grp(2, "", Lit(" the"))), Lit(" "), Grp(3, "", Alt(<<Lit("files"), Lit("file types")>>)), Opt(Grp(4, "", Alt(<<Lit(" in"), Lit(" within")>>))), Lit(" "), Grp(5, "directory", DotPlus)>>),
     handler |-> "_analyze_file_types"],
    \* 18 (line 102): r'(tell me|what|which)( about)?( my)? (devices|peripherals)( are connected| do i have)'
    [pattern |-> Cat(<<Grp(1, "", Alt(<<Lit("tell me"), Lit("what"), Lit("which")>>)), Opt(Grp(2, "", Lit(" about"))), Opt(Grp(3, "", Lit(" my"))), Lit(" "), Grp(4, "", Alt(<<Lit("devices"), Lit("peripherals")>>)), Grp(5, "", Alt(<<Lit(" are connected"), Lit(" do i have")>>))>>),
     handler |-> "_get_connected_devices"],
    \* 19 (line 103): r'(tell me|what)( about)?( my)? (monitor|display|screen)s?( info| information)?'
    [pattern |-> Cat(<<Grp(1, "", Alt(<<Lit("tell me"), Lit("what")>>)), Opt(Grp(2, "", Lit(" about"))), Opt(Grp(3, "", Lit(" my"))), Lit(" "), Grp(4, "", Alt(<<Lit("monitor"), Lit("display"), Lit("screen")>>)), Opt(Lit("s")), Opt(Grp(5, "", Alt(<<Lit(" info"), Lit(" information")>>)))>>),
     handler |-> "_get_monitor_info"],
    \* 20 (line 104): r'(tell me|what)( about)?( my)? (printer|printing device)s?( info| information)?'
    [pattern |-> Cat(<<Grp(1, "", Alt(<<Lit("tell me"), Lit("what")>>)), Opt(Grp(2, "", Lit(" about"))), Opt(Grp(3, "", Lit(" my"))), Lit(" "), Grp(4, "", Alt(<<Lit("printer"), Lit("printing device")>>)), Opt(Lit("s")), Opt(Grp(5, "", Alt(<<Lit(" info"), Lit(" information")>>)))>>),
     handler |-> "_get_printer_info"],
    \* 21 (line 105): r'(tell me|what)( about)?( my)? (usb|usb device)s?( info| information)?'
    [pattern |-> Cat(<<Grp(1, "", Alt(<<Lit("tell me"), Lit("what")>>)), Opt(Grp(2, "", Lit(" about"))), Opt(Grp(3, "", Lit(" my"))), Lit(" "), Grp(4, "", Alt(<<Lit("usb"), Lit("usb device")>>)), Opt(Lit("s")), Opt(Grp(5, "", Alt(<<Lit(" info"), Lit(" information")>>)))>>),
     handler |-> "_get_usb_devices"],
    \* 22 (line 106): r'(tell me|what)( about)?( my)? (audio|sound|speaker|microphone)( device)?s?( info| information)?'
    [pattern |-> Cat(<<Grp(1, "", Alt(<<Lit("tell me"), Lit("what")>>)), Opt(Grp(2, "", Lit(" about"))), Opt(Grp(3, "", Lit(" my"))), Lit(" "), Grp(4, "", Alt(<<Lit("audio"), Lit("sound"), Lit("speaker"), Lit("microphone")>>)), Opt(Grp(5, "", Lit(" device"))), Opt(Lit("s")), Opt(Grp(6, "", Alt(<<Lit(" info"), Lit(" information")>>)))>>),
     handler |-> "_get_audio_devices"],
    \* 23 (line 107): r'(tell me|what)( about)?( my)? (bluetooth|bt)( device)?s?( info| information)?'
    [pattern |-> Cat(<<Grp(1, "", Alt(<<Lit("tell me"), Lit("what")>>)), Opt(Grp(2, "", Lit(" about"))), Opt(Grp(3, "", Lit(" my"))), Lit(" "), Grp(4, "", Alt(<<Lit("bluetooth"), Lit("bt")>>)), Opt(Grp(5, "", Lit(" device"))), Opt(Lit("s")), Opt(Grp(6, "", Alt(<<Lit(" info"), Lit(" information")>>)))>>),
     handler |-> "_get_bluetooth_devices"],
    \* 24 (line 108): r'(scan|check)( for)? (new|newly connected) devices'
    [pattern |-> Cat(<<Grp(1, "", Alt(<<Lit("scan"), Lit("check")>>)), Opt(Grp(2, "", Lit(" for"))), Lit(" "), Grp(3, "", Alt(<<Lit("new"), Lit("newly connected")>>)), Lit(" devices")>>),
     handler |-> "_scan_for_new_devices"],
    \* 25 (line 111): r'open (?P<app_name>.+?)(\s+with\s+(?P<args>.+))?$'
    [pattern |-> Cat(<<Lit("open "), Grp(1, "app_name", DotPlusLazy), Opt(Grp(2, "", Cat(<<SpacePlus, Lit("with"), SpacePlus, Grp(3, "args", DotPlus)>>))), End>>),
     handler |-> "_open_application"],
    \* 26 (line 112): r'launch (?P<app_name>.+?)(\s+with\s+(?P<args>.+))?$'
    [pattern |-> Cat(<<Lit("launch "), Grp(1, "app_name", DotPlusLazy), Opt(Grp(2, "", Cat(<<SpacePlus, Lit("with"), SpacePlus, Grp(3, "args", DotPlus)>>))), End>>),
     handler |-> "_open_application"],
    \* 27 (line 113): r'start (?P<app_name>.+?)(\s+with\s+(?P<args>.+))?$'
    [pattern |-> Cat(<<Lit("start "), Grp(1, "app_name", DotPlusLazy), Opt(Grp(2, "", Cat(<<SpacePlus, Lit("with"), SpacePlus, Grp(3, "args", DotPlus)>>))), End>>),
     handler |-> "_open_application"],
    \* 28 (line 114): r'run (?P<app_name>.+?)(\s+with\s+(?P<args>.+))?$'
    [pattern |-> Cat(<<Lit("run "), Grp(1, "app_name", DotPlusLazy), Opt(Grp(2, "", Cat(<<SpacePlus, Lit("with"), SpacePlus, Grp(3, "args", DotPlus)>>))), End>>),
     handler |-> "_open_application"],
    \* 29 (line 117): r'create (a )?(?:folder|directory|dir)( called| named)? (?P<dir_path>.+)'
    [pattern |-> Cat(<<Lit("create "), Opt(Grp(1, "", Lit("a "))), Alt(<<Lit("folder"), Lit("directory"), Lit("dir")>>), Opt(Grp(2, "", Alt(<<Lit(" called"), Lit(" named")>>))), Lit(" "), Grp(3, "dir_path", DotPlus)>>),
     handler |-> "_create_directory"],
    \* 30 (line 118): r'make (a )?(?:folder|directory|dir)( called| named)? (?P<dir_path>.+)'
    [pattern |-> Cat(<<Lit("make "), Opt(Grp(1, "", Lit("a "))), Alt(<<Lit("folder"), Lit("directory"), Lit("dir")>>), Opt(Grp(2, "", Alt(<<Lit(" called"), Lit(" named")>>))), Lit(" "), Grp(3, "dir_path", DotPlus)>>),
     handler |-> "_create_directory"],
    \* 31 (line 119): r'create (a )?(?:folder|directory|dir)$'
    [pattern |-> Cat(<<Lit("create "), Opt(Grp(1, "", Lit("a "))), Alt(<<Lit("folder"), Lit("directory"), Lit("dir")>>), End>>),
     handler |-> "_create_directory_prompt"],
    \* 32 (line 120): r'make (a )?(?:folder|directory|dir)$'
    [pattern |-> Cat(<<Lit("make "), Opt(Grp(1, "", Lit("a "))), Alt(<<Lit("folder"), Lit("directory"), Lit("dir")>>), End>>),
     handler |-> "_create_directory_prompt"],
    \* 33 (line 121): r'delete (?:the )?(?:folder|directory|dir)( called| named)? (?P<dir_path>.+)'
    [pattern |-> Cat(<<Lit("delete "), Opt(Lit("the ")), Alt(<<Lit("folder"), Lit("directory"), Lit("dir")>>), Opt(Grp(1, "", Alt(<<Lit(" called"), Lit(" named")>>))), Lit(" "), Grp(2, "dir_path", DotPlus)>>),
     handler |-> "_delete_directory"],
    \* 34 (line 122): r'remove (?:the )?(?:folder|directory|dir)( called| named)? (?P<dir_path>.+)'
    [pattern |-> Cat(<<Lit("remove "), Opt(Lit("the ")), Alt(<<Lit("folder"), Lit("directory"), Lit("dir")>>), Opt(Grp(1, "", Alt(<<Lit(" called"), Lit(" named")>>))), Lit(" "), Grp(2, "dir_path", DotPlus)>>),
     handler |-> "_delete_directory"],
    \* 35 (line 123): r'update (?:the )?(?:folder|directory|dir)( called| named)? (?P<dir_path>.+)'
    [pattern |-> Cat(<<Lit("update "), Opt(Lit("the ")), Alt(<<Lit("folder"), Lit("directory"), Lit("dir")>>), Opt(Grp(1, "", Alt(<<Lit(" called"), Lit(" named")>>))), Lit(" "), Grp(2, "dir_path", DotPlus)>>),
     handler |-> "_update_directory"],
    \* 36 (line 124): r'insert (?:into )?(?:folder|directory|dir)( called| named)? (?P<dir_path>.+)'
    [pattern |-> Cat(<<Lit("insert "), Opt(Lit("into ")), Alt(<<Lit("folder"), Lit("directory"), Lit("dir")>>), Opt(Grp(1, "", Alt(<<Lit(" called"), Lit(" named")>>))), Lit(" "), Grp(2, "dir_path", DotPlus)>>),
     handler |-> "_insert_into_directory"],
    \* 37 (line 127): r'create (a )?file( called| named)? (?P<file_path>.+)'
    [pattern |-> Cat(<<Lit("create "), Opt(Grp(1, "", Lit("a "))), Lit("file"), Opt(Grp(2, "", Alt(<<Lit(" called"), Lit(" named")>>))), Lit(" "), Grp(3, "file_path", DotPlus)>>),
     handler |-> "_create_file"],
    \* 38 (line 128): r'make (a )?file( called| named)? (?P<file_path>.+)'
    [pattern |-> Cat(<<Lit("make "), Opt(Grp(1, "", Lit("a "))), Lit("file"), Opt(Grp(2, "", Alt(<<Lit(" called"), Lit(" named")>>))), Lit(" "), Grp(3, "file_path", DotPlus)>>),
     handler |-> "_create_file"],
    \* 39 (line 129): r'delete( the| my)?( file| directory| folder)? (?P<path>.+)'
    [pattern |-> Cat(<<Lit("delete"), Opt(Grp(1, "", Alt(<<Lit(" the"), Lit(" my")>>))), Opt(Grp(2, "", Alt(<<Lit(" file"), Lit(" directory"), Lit(" folder")>>))), Lit(" "), Grp(3, "path", DotPlus)>>),
     handler |-> "_delete_item"],
    \* 40 (line 130): r'remove( the| my)?( file| directory| folder)? (?P<path>.+)'
    [pattern |-> Cat(<<Lit("remove"), Opt(Grp(1, "", Alt(<<Lit(" the"), Lit(" my")>>))), Opt(Grp(2, "", Alt(<<Lit(" file"), Lit(" directory"), Lit(" folder")>>))), Lit(" "), Grp(3, "path", DotPlus)>>),
     handler |-> "_delete_item"],
    \* 41 (line 133): r'execute( the)? command (?P<command>.+)'
    [pattern |-> Cat(<<Lit("execute"), Opt(Grp(1, "", Lit(" the"))), Lit(" command "), Grp(2, "command", DotPlus)>>),
     handler |-> "_execute_command"],
    \* 42 (line 134): r'run( the)? command (?P<command>.+)'
    [pattern |-> Cat(<<Lit("run"), Opt(Grp(1, "", Lit(" the"))), Lit(" command "), Grp(2, "command", DotPlus)>>),
     handler |-> "_execute_command"],
    \* 43 (line 137): r'(who|what|when|where|why|how) (is|are|was|were|do|does|did) .+'
    [pattern |-> Cat(<<Grp(1, "", Alt(<<Lit("who"), Lit("what"), Lit("when"), Lit("where"), Lit("why"), Lit("how")>>)), Lit(" "), Grp(2, "", Alt(<<Lit("is"), Lit("are"), Lit("was"), Lit("were"), Lit("do"), Lit("does"), Lit("did")>>)), Lit(" "), DotPlus>>),
     handler |-> "_answer_question"],
    \* 44 (line 138): r'tell me (about|something about) .+'
    [pattern |-> Cat(<<Lit("tell me "), Grp(1, "", Alt(<<Lit("about"), Lit("something about")>>)), Lit(" "), DotPlus>>),
     handler |-> "_answer_question"],
    \* 45 (line 141): r'(exit|quit|shutdown|bye|goodbye)'
    [pattern |-> Grp(1, "", Alt(<<Lit("exit"), Lit("quit"), Lit("shutdown"), Lit("bye"), Lit("goodbye")>>)),
     handler |-> "_shutdown"],
    \* 46 (line 144): r'(who are you|what are you|tell me about yourself)'
    [pattern |-> Grp(1, "", Alt(<<Lit("who are you"), Lit("what are you"), Lit("tell me about yourself")>>)),
     handler |-> "_introduce_self"],
    \* 47 (line 145): r'(how are you|how do you feel)'
    [pattern |-> Grp(1, "", Alt(<<Lit("how are you"), Lit("how do you feel")>>)),
     handler |-> "_mood_response"],
    \* 48 (line 146): r'(thank you|thanks)'
    [pattern |-> Grp(1, "", Alt(<<Lit("thank you"), Lit("thanks")>>)),
     handler |-> "_youre_welcome"],
    \* 49 (line 149): r'(help|what can you do|commands|list commands)'
    [pattern |-> Grp(1, "", Alt(<<Lit("help"), Lit("what can you do"), Lit("commands"), Lit("list commands")>>)),
     handler |-> "_help_command"],
    \* 50 (line 152): r'(?:enable|turn on) (?P<setting>.+?) (?:data collection|tracking|monitoring)'
    [pattern |-> Cat(<<Alt(<<Lit("enable"), Lit("turn on")>>), Lit(" "), Grp(1, "setting", DotPlusLazy), Lit(" "), Alt(<<Lit("data collection"), Lit("tracking"), Lit("monitoring")>>)>>),
     handler |-> "_handle_enable_privacy_setting"],
    \* 51 (line 153): r'(?:disable|turn off) (?P<setting>.+?) (?:data collection|tracking|monitoring)'
    [pattern |-> Cat(<<Alt(<<Lit("disable"), Lit("turn off")>>), Lit(" "), Grp(1, "setting", DotPlusLazy), Lit(" "), Alt(<<Lit("data collection"), Lit("tracking"), Lit("monitoring")>>)>>),
     handler |-> "_handle_disable_privacy_setting"],
    \* 52 (line 154): r'show (?:my )?privacy settings'
    [pattern |-> Cat(<<Lit("show "), Opt(Lit("my ")), Lit("privacy settings")>>),
     handler |-> "_handle_show_privacy_settings"],
    \* 53 (line 155): r'clear (?:all )?(?:my )?data'
    [pattern |-> Cat(<<Lit("clear "), Opt(Lit("all ")), Opt(Lit("my ")), Lit("data")>>),
     handler |-> "_handle_clear_data"],
    \* 54 (line 156): r'add sensitive directory (?P<directory>.+)'
    [pattern |-> Cat(<<Lit("add sensitive directory "), Grp(1, "directory", DotPlus)>>),
     handler |-> "_handle_add_sensitive_directory"],
    \* 55 (line 157): r'show data access (?:log|history)'
    [pattern |-> Cat(<<Lit("show data access "), Alt(<<Lit("log"), Lit("history")>>)>>),
     handler |-> "_handle_show_data_access_log"],
    \* 56 (line 158): r'(?:is my data secure|how secure is my data)'
    [pattern |-> Alt(<<Lit("is my data secure"), Lit("how secure is my data")>>),
     handler |-> "_handle_data_security_status"],
    \* 57 (line 161): r'.+'
    [pattern |-> DotPlus,
     handler |-> "_default_response"]
  >>

(***************************************************************************)
(* The handlers' parameter lists after (self, command_text): the named     *)
(* parameters that can be filled positionally, and whether *args is there. *)
(* Every handler takes **kwargs.                                           *)
(***************************************************************************)
NoArgs == [params |-> <<>>, varargs |-> FALSE]
VarArgs == [params |-> <<>>, varargs |-> TRUE]
OneParam(p) == [params |-> <<p>>, varargs |-> FALSE]

HandlerSig ==
  [h \in {commands[k].handler : k \in 1..Len(commands)} |->
     CASE h \in {"_search_files", "_analyze_file_types", "_open_application",
                 "_create_directory", "_create_file", "_delete_item",
                 "_execute_command", "_answer_question", "_shutdown",
                 "_create_directory_prompt", "_delete_directory",
                 "_update_directory", "_insert_into_directory"} -> VarArgs
       [] h = "_get_weather" -> OneParam("location")
       [] h \in {"_handle_enable_privacy_setting",
                 "_handle_disable_privacy_setting"} -> OneParam("setting")
       [] h = "_handle_add_sensitive_directory" -> OneParam("directory")
       [] OTHER -> NoArgs]

KwHas(kwargs, name) == \E e \in kwargs : e.name = name
\* kwargs.get(name)
KwGet(kwargs, name) ==
  IF KwHas(kwargs, name) THEN (CHOOSE e \in kwargs : e.name = name).val ELSE None

\* Python's argument binding for handler(command_text, *args, **kwargs):
\* TypeError when there are more positional arguments than parameters and no
\* *args, or when a keyword names a parameter already filled positionally.
BindOk(h, args, kwargs) ==
  LET sig == HandlerSig[h]
      filled == IF Len(args) < Len(sig.params) THEN Len(args) ELSE Len(sig.params)
  IN /\ sig.varargs \/ Len(args) <= Len(sig.params)
     /\ \A k \in 1..filled : ~KwHas(kwargs, sig.params[k])

\* the value a named parameter receives (default None)
ParamValue(h, args, kwargs, name) ==
  LET sig == HandlerSig[h]
      pos == {k \in 1..Len(sig.params) : sig.params[k] = name /\ k <= Len(args)}
  IN IF pos # {} THEN args[CHOOSE k \in pos : TRUE] ELSE KwGet(kwargs, name)

(***************************************************************************)
(* The scan of process_command: the first rule, in table order, whose      *)
(* pattern matches; 0 when none does.                                      *)
(***************************************************************************)
RECURSIVE Scan(_, _)
Scan(text, k) ==
  IF k > Len(commands) THEN 0
  ELSE IF ReMatch(commands[k].pattern, text) # <<>> THEN k
  ELSE Scan(text, k + 1)

\* a scan that stops before the catch-all rule
RECURSIVE ScanNamedRules(_, _)
ScanNamedRules(text, k) ==
  IF k >= Len(commands) THEN 0
  ELSE IF ReMatch(commands[k].pattern, text) # <<>> THEN k
  ELSE ScanNamedRules(text, k + 1)

FirstMatchWithoutCatchAll(text) == ScanNamedRules(text, 1)

\* a scan that keeps going and ends on the last rule that matches
RECURSIVE ScanToLast(_, _, _)
ScanToLast(text, k, found) ==
  IF k > Len(commands) THEN found
  ELSE ScanToLast(text, k + 1,
                  IF ReMatch(commands[k].pattern, text) # <<>> THEN k ELSE found)

LastMatch(text) == ScanToLast(text, 1, 0)

\* for pattern, handler in self.commands.items(): the first rule that matches
FirstMatch(text) == Scan(text, 1)

(***************************************************************************)
(* pathlib on a POSIX host: SystemHandler's well-known directories and     *)
(* _resolve_path.                                                          *)
(***************************************************************************)
user_home == "/home/u"
desktop == "/home/u/Desktop"
documents == "/home/u/Documents"
downloads == "/home/u/Downloads"
cwd == "/home/u/jarvis"

\* s[k:]
Slice(s, k) == IF k >= Len(s) THEN "" ELSE SubSeq(s, k + 1, Len(s))

\* the components of a path string; empty and "." components vanish
RECURSIVE Components(_, _)
Components(s, cur) ==
  IF s = "" THEN (IF cur \in {"", "."} THEN <<>> ELSE <<cur>>)
  ELSE IF Head(s) = "/"
       THEN (IF cur \in {"", "."} THEN <<>> ELSE <<cur>>) \o Components(Tail(s), "")
       ELSE Components(Tail(s), cur \o Head(s))

RECURSIVE JoinParts(_)
JoinParts(parts) ==
  IF parts = <<>> THEN ""
  ELSE IF Len(parts) = 1 THEN parts[1]
  ELSE parts[1] \o "/" \o JoinParts(Tail(parts))

IsAbsolute(s) == StartsWith(s, "/")

\* str(Path(s)); exactly two leading slashes are kept as they are
PurePath(s) ==
  LET body == JoinParts(Components(s, ""))
  IN IF StartsWith(s, "//") /\ ~StartsWith(s, "///") THEN "//" \o body
     ELSE IF IsAbsolute(s) THEN "/" \o body ELSE IF body = "" THEN "." ELSE body

\* str(Path(base) / rel)
PathJoin(base, rel) ==
  IF IsAbsolute(rel) THEN PurePath(rel) ELSE PurePath(base \o "/" \o rel)

\* s.lstrip('/\\')
RECURSIVE LStripSeps(_)
LStripSeps(s) == IF s # "" /\ Head(s) \in {"/", "\\"} THEN LStripSeps(Tail(s)) ELSE s

_resolve_path(path_str) ==
  IF StartsWith(path_str, "~")
  THEN PurePath(user_home \o Slice(path_str, 1))
  ELSE IF StartsWith(Lower(path_str), "desktop")
  THEN PathJoin(desktop, LStripSeps(Slice(path_str, 8)))
  ELSE IF StartsWith(Lower(path_str), "documents")
  THEN PathJoin(documents, LStripSeps(Slice(path_str, 10)))
  ELSE IF StartsWith(Lower(path_str), "downloads")
  THEN PathJoin(downloads, LStripSeps(Slice(path_str, 10)))
  ELSE IF IsAbsolute(PurePath(path_str)) THEN PurePath(path_str)
  ELSE PathJoin(cwd, PurePath(path_str))

(***************************************************************************)
(* The filesystem: a set of entries [path, kind, content].                 *)
(***************************************************************************)
Dir(p) == [path |-> p, kind |-> "dir", content |-> ""]
File(p, c) == [path |-> p, kind |-> "file", content |-> c]

IsFile(f, p) == \E e \in f : e.path = p /\ e.kind = "file"
IsDir(f, p) == \E e \in f : e.path = p /\ e.kind = "dir"
PathExists(f, p) == \E e \in f : e.path = p

\* the proper ancestors of an absolute path, the root excluded
Ancestors(p) == {SubSeq(p, 1, k - 1) : k \in {j \in 2..Len(p) : CharAt(p, j) = "/"}}

\* Path.parent
Parent(p) ==
  IF Ancestors(p) = {} THEN "/"
  ELSE CHOOSE a \in Ancestors(p) : \A b \in Ancestors(p) : Len(b) <= Len(a)

\* Path.mkdir(parents=True, exist_ok=True): FileExistsError / NotADirectoryError
\* when a file is in the way
MkdirBlocked(f, p) == IsFile(f, p) \/ \E a \in Ancestors(p) : IsFile(f, a)
Mkdir(f, p) == f \cup {Dir(q) : q \in {x \in Ancestors(p) \cup {p} : ~PathExists(f, x)}}

\* shutil.rmtree / Path.unlink
Under(p, q) == q = p \/ StartsWith(q, IF p = "/" THEN "/" ELSE p \o "/")
Remove(f, p) == {e \in f : ~Under(p, e.path)}

(***************************************************************************)
(* SecurityManager: privacy settings                                       *)
(***************************************************************************)
default_settings ==
  [collect_system_info |-> TRUE,
   collect_usage_data |-> TRUE,
   store_command_history |-> TRUE,
   allow_network_access |-> TRUE,
   allow_file_system_access |-> TRUE,
   allow_process_management |-> TRUE,
   sensitive_directories |->
     <<user_home \o "/Documents", user_home \o "/Downloads", user_home \o "/Pictures">>,
   excluded_file_types |->
     <<".password", ".key", ".token", ".secret", ".credential", ".pem", ".ppk",
       ".keystore">>]

ToggleKeys ==
  {"collect_system_info", "collect_usage_data", "store_command_history",
   "allow_network_access", "allow_file_system_access", "allow_process_management"}

valid_keys == ToggleKeys \cup {"sensitive_directories", "excluded_file_types"}

\* a file that is absent, or holds `data'
NoFile(blank) == [exists |-> FALSE, data |-> blank]
FileOf(d) == [exists |-> TRUE, data |-> d]

\* updated_settings[key] = value
SetKey(settings, key, value) ==
  IF key \in valid_keys THEN [settings EXCEPT ![key] = value] ELSE settings

SeqContains(q, x) == \E k \in 1..Len(q) : q[k] = x

\* SecurityManager.is_sensitive_path
is_sensitive_path(settings, path_str) ==
  \/ \E k \in 1..Len(settings.sensitive_directories) :
        StartsWith(path_str, settings.sensitive_directories[k])
  \/ \E k \in 1..Len(settings.excluded_file_types) :
        EndsWith(path_str, settings.excluded_file_types[k])

\* SecurityManager.secure_file_access
secure_file_access(settings, file_path) ==
  settings.allow_file_system_access /\ ~is_sensitive_path(settings, file_path)

(***************************************************************************)
(* SecurityManager: secure storage.  Python values are tagged trees of     *)
(* depth at most two; json.dumps and json.loads are modelled by the types  *)
(* they map to one another.                                                *)
(***************************************************************************)
\* dictionary keys
StrKey(s) == [ty |-> "str", repr |-> s]
IntKey(s) == [ty |-> "int", repr |-> s]
NoKey == [ty |-> "", repr |-> ""]

\* scalars
PyStr(s) == [ty |-> "str", atom |-> s, items |-> <<>>]
PyInt(s) == [ty |-> "int", atom |-> s, items |-> <<>>]
PyNone == [ty |-> "NoneType", atom |-> "", items |-> <<>>]
\* an object json cannot serialise (a set, a bytes object, ...)
PyObject == [ty |-> "object", atom |-> "", items |-> <<>>]
\* containers of scalars; the items of a list or tuple carry no key
Item(k, v) == [k |-> k, v |-> v]
PyList(vs) == [ty |-> "list", atom |-> "", items |-> [j \in 1..Len(vs) |-> Item(NoKey, vs[j])]]
PyTuple(vs) == [ty |-> "tuple", atom |-> "", items |-> [j \in 1..Len(vs) |-> Item(NoKey, vs[j])]]
PyDict(kvs) == [ty |-> "dict", atom |-> "", items |-> kvs]

\* the key json.dumps writes for a dictionary key: str(key) for an int
JsonKey(k) == IF k.ty = "" THEN NoKey ELSE StrKey(k.repr)

\* dict(pairs): a later pair with an equal key replaces the value in place
RECURSIVE DictOf(_, _)
DictOf(pairs, acc) ==
  IF pairs = <<>> THEN acc
  ELSE LET p == Head(pairs)
           at == {j \in 1..Len(acc) : acc[j].k = p.k}
       IN DictOf(Tail(pairs),
                 IF at = {} THEN Append(acc, p)
                 ELSE [acc EXCEPT ![CHOOSE j \in at : TRUE] = p])

Serializable(v) ==
  /\ v.ty # "object"
  /\ \A j \in 1..Len(v.items) : v.items[j].v.ty # "object"

\* json.dumps on a serialisable value: list and tuple both become an array,
\* a dict becomes an object whose keys are strings
RECURSIVE JsonDumps(_)
JsonDumps(v) ==
  [jt |-> CASE v.ty \in {"list", "tuple"} -> "array"
            [] v.ty = "dict" -> "object"
            [] v.ty = "str" -> "string"
            [] v.ty = "int" -> "number"
            [] OTHER -> "null",
   atom |-> v.atom,
   items |-> [j \in 1..Len(v.items) |-> Item(JsonKey(v.items[j].k), JsonDumps(v.items[j].v))]]

\* json.loads: an array becomes a list, an object a dict (the last of equal
\* keys wins)
RECURSIVE JsonLoads(_)
JsonLoads(j) ==
  [ty |-> CASE j.jt = "array" -> "list"
            [] j.jt = "object" -> "dict"
            [] j.jt = "string" -> "str"
            [] j.jt = "number" -> "int"
            [] OTHER -> "NoneType",
   atom |-> j.atom,
   items |-> LET loaded == [k \in 1..Len(j.items) |->
                              Item(j.items[k].k, JsonLoads(j.items[k].v))]
             IN IF j.jt = "object" THEN DictOf(loaded, <<>>) ELSE loaded]

\* the storage mapping is a dict of key -> value; its JSON text is the
\* sequence of members json.dumps writes
StorageSerializable(storage) == \A j \in 1..Len(storage) : Serializable(storage[j].v)
JsonDumpsStorage(storage) ==
  [j \in 1..Len(storage) |-> Item(JsonKey(storage[j].k), JsonDumps(storage[j].v))]
JsonLoadsStorage(text) ==
  DictOf([j \in 1..Len(text) |-> Item(text[j].k, JsonLoads(text[j].v))], <<>>)

\* dict.get(key, default)
DictHas(d, key) == \E j \in 1..Len(d) : d[j].k = key
DictGet(d, key, default) ==
  IF DictHas(d, key) THEN d[CHOOSE j \in 1..Len(d) : d[j].k = key].v ELSE default
\* d[key] = value
DictSet(d, key, value) == DictOf(<<Item(key, value)>>, d)
\* del d[key]
DictDel(d, key) == SelectSeq(d, LAMBDA e : e.k # key)

\* Fernet(key).encrypt(data) and .decrypt(token): a token opens only under
\* the key that made it
Encrypt(key, data) == [key |-> key, data |-> data]
CanDecrypt(key, token) == token.key = key

(***************************************************************************)
(* State                                                                   *)
(***************************************************************************)
VARIABLES
  system_handler,       \* CommandProcessor.system_handler is not None
  system_analyzer,      \* CommandProcessor.system_analyzer is not None
  device_monitor,       \* CommandProcessor.device_monitor is not None
  security_manager,     \* CommandProcessor.security_manager is not None
  openai_enabled,       \* openai_enabled and openai_client
  fs,                   \* the filesystem
  privacy_settings,     \* SecurityManager.privacy_settings
  privacy_file,         \* privacy_settings.json
  secure_storage,       \* SecurityManager.secure_storage
  secure_storage_file,  \* secure_storage.enc
  key_file,             \* .key
  cipher_suite,         \* the key of SecurityManager.cipher_suite
  keys_made,            \* how many keys Fernet.generate_key has produced
  restarts,             \* how many times the process was started again
  running,              \* the process has not exited
  last,                 \* what the last process_command call did
  sec,                  \* what the last secure-storage call did
  listening,            \* the call of SpeechListener in progress
  run,                  \* where Jarvis.run is
  resolved,             \* the last call of SystemHandler._resolve_path
  direct                \* where Jarvis.direct_voice_mode is

vars ==
  <<system_handler, system_analyzer, device_monitor, security_manager,
    openai_enabled, fs, privacy_settings, privacy_file, secure_storage,
    secure_storage_file, key_file, cipher_suite, keys_made, restarts, running,
    last, sec, listening, run, resolved, direct>>

session_vars == <<listening, run, resolved, direct>>
collaborators == <<system_handler, system_analyzer, device_monitor, security_manager, openai_enabled>>
security_vars ==
  <<privacy_settings, privacy_file, secure_storage, secure_storage_file, key_file,
    cipher_suite, keys_made, restarts>>

(***************************************************************************)
(* Bounds                                                                  *)
(***************************************************************************)
\* process restarts explored
MaxRestarts == 1

(***************************************************************************)
(* SystemHandler's file operations: the outcomes each can have, as         *)
(* [ok, fs].  Any of them can fail with an OSError, which the method       *)
(* catches to return False.                                                *)
(***************************************************************************)
Outcome(ok, f) == [ok |-> ok, fs |-> f]

create_directory(f, dir_path) ==
  LET path == _resolve_path(dir_path)
  IN {Outcome(FALSE, f)} \cup
     (IF MkdirBlocked(f, path) THEN {} ELSE {Outcome(TRUE, Mkdir(f, path))})

create_file(f, file_path, content) ==
  LET path == _resolve_path(file_path)
      parent == Parent(path)
      withParent == IF parent = "/" THEN f ELSE Mkdir(f, parent)
  IN {Outcome(FALSE, f)} \cup
     (IF (parent # "/" /\ MkdirBlocked(f, parent)) THEN {}
      ELSE IF IsDir(f, path) \/ path = "/" THEN {Outcome(FALSE, withParent)}
      ELSE {Outcome(TRUE, {e \in withParent : e.path # path} \cup {File(path, content)})})

delete_item(f, path_str) ==
  LET path == _resolve_path(path_str)
  IN {Outcome(FALSE, f)} \cup
     (IF IsFile(f, path) \/ IsDir(f, path) THEN {Outcome(TRUE, Remove(f, path))} ELSE {})

\* os.rename(old_path, new_path) in _update_directory
Rename(f, old, new) ==
  {e \in f : ~Under(old, e.path) /\ ~Under(new, e.path)} \cup
  {[e EXCEPT !.path = new \o Slice(e.path, Len(old))] : e \in {x \in f : Under(old, x.path)}}

RenameAllowed(f, old, new) ==
  \/ ~PathExists(f, new)
  \/ IsFile(f, old) /\ IsFile(f, new)
  \/ IsDir(f, old) /\ IsDir(f, new) /\ ~\E e \in f : e.path # new /\ Under(new, e.path)

(***************************************************************************)
(* What a handler does: the utterances it speaks, the collaborator calls   *)
(* it makes, what it raises, and the state it leaves.                      *)
(***************************************************************************)
\* a collaborator call: what it was given, what it reported, and how many
\* utterances the handler had spoken when it made it
Call(target, fn, arg, result, said) ==
  [target |-> target, fn |-> fn, arg |-> arg, result |-> result, said |-> said]

Bool(b) == IF b THEN "True" ELSE "False"

Res(say, calls) ==
  [say |-> say, calls |-> calls, raised |-> "none", fs |-> fs,
   privacy_settings |-> privacy_settings, privacy_file |-> privacy_file,
   secure_storage |-> secure_storage, secure_storage_file |-> secure_storage_file]

Raise(r, exc) == [r EXCEPT !.raised = exc]

\* Speaker.speak: empty text is dropped
Speak(said, text) == IF text = "" THEN said ELSE Append(said, text)

RECURSIVE SpeakAll(_, _)
SpeakAll(said, texts) ==
  IF texts = <<>> THEN said ELSE SpeakAll(Speak(said, Head(texts)), Tail(texts))

\* kwargs.get(name), else args[0]
FirstArg(args, kwargs, name) ==
  IF ~Truthy(KwGet(kwargs, name)) /\ Len(args) > 0 THEN args[1] ELSE KwGet(kwargs, name)

SystemUnavailable == "I'm sorry, system operations are not available at the moment."
AnalyzerUnavailable == "I'm sorry, system analysis capabilities are not available at the moment."
DeviceUnavailable == "I'm sorry, device monitoring capabilities are not available at the moment."
SecurityUnavailable == "Security management is not available."

(***************************************************************************)
(* Handlers: system operations                                             *)
(***************************************************************************)
\* SystemHandler.open_application launches a process; it reports success or
\* failure and raises nothing
_open_application(command_text, args, kwargs) ==
  IF ~system_handler THEN {Res(<<SystemUnavailable>>, <<>>)}
  ELSE LET app == FirstArg(args, kwargs, "app_name")
       IN IF ~Truthy(app)
          THEN {Res(<<"Sorry, I didn't catch which application to open.">>, <<>>)}
          ELSE LET app_name == Strip(app.v)
               IN {Res(SpeakAll(<<>>,
                         <<"Opening " \o app_name \o ".",
                           IF ok THEN ""
                           ELSE "I couldn't find or open " \o app_name
                                \o ". Please check if it's installed correctly.">>),
                       <<Call("system_handler", "open_application", app_name, Bool(ok), 1)>>)
                   : ok \in BOOLEAN}

\* a handler that confirms the creation whatever create_directory returned
_create_directory_unchecked(command_text, args, kwargs) ==
  IF ~system_handler THEN {Res(<<SystemUnavailable>>, <<>>)}
  ELSE LET dir_path == Strip(FirstArg(args, kwargs, "dir_path").v)
       IN {[Res(<<"Creating directory " \o dir_path \o ".",
                  "Directory " \o dir_path \o " has been created.">>,
                <<Call("system_handler", "create_directory", dir_path, Bool(o.ok), 1)>>)
            EXCEPT !.fs = o.fs]
           : o \in create_directory(fs, dir_path)}

_create_directory(command_text, args, kwargs) ==
  IF ~system_handler THEN {Res(<<SystemUnavailable>>, <<>>)}
  ELSE LET dp == FirstArg(args, kwargs, "dir_path")
       IN IF ~Truthy(dp)
          THEN {Res(<<"Sorry, I didn't catch where to create the directory.">>, <<>>)}
          ELSE LET dir_path == Strip(dp.v)
               IN {[Res(<<"Creating directory " \o dir_path \o ".",
                          IF o.ok THEN "Directory " \o dir_path \o " has been created."
                          ELSE "I couldn't create the directory " \o dir_path
                               \o ". Please check the path and try again.">>,
                        <<Call("system_handler", "create_directory", dir_path, Bool(o.ok), 1)>>)
                    EXCEPT !.fs = o.fs]
                   : o \in create_directory(fs, dir_path)}

_create_directory_prompt(command_text, args, kwargs) ==
  IF ~system_handler THEN {Res(<<SystemUnavailable>>, <<>>)}
  ELSE LET dir_path == "Jarvis_Test_Folder"
       IN {[Res(<<"Where would you like to create the folder? Please specify a path.",
                  "Creating directory " \o dir_path \o ".",
                  IF o.ok THEN "Directory " \o dir_path \o " has been created."
                  ELSE "I couldn't create the directory " \o dir_path
                       \o ". Please check the path and try again.">>,
                <<Call("system_handler", "create_directory", dir_path, Bool(o.ok), 2)>>)
            EXCEPT !.fs = o.fs]
           : o \in create_directory(fs, dir_path)}

_create_file(command_text, args, kwargs) ==
  IF ~system_handler THEN {Res(<<SystemUnavailable>>, <<>>)}
  ELSE LET fp == FirstArg(args, kwargs, "file_path")
       IN IF ~Truthy(fp)
          THEN {Res(<<"Sorry, I didn't catch where to create the file.">>, <<>>)}
          ELSE LET file_path == Strip(fp.v)
               IN {[Res(<<"Creating file " \o file_path \o ".",
                          IF o.ok THEN "File " \o file_path \o " has been created."
                          ELSE "I couldn't create the file " \o file_path
                               \o ". Please check the path and try again.">>,
                        <<Call("system_handler", "create_file", file_path, Bool(o.ok), 1)>>)
                    EXCEPT !.fs = o.fs]
                   : o \in create_file(fs, file_path, "")}

\* the confirmation is not listened for: `confirmation = True'
_delete_item(command_text, args, kwargs) ==
  IF ~system_handler THEN {Res(<<SystemUnavailable>>, <<>>)}
  ELSE LET pa == FirstArg(args, kwargs, "path")
           confirmation == TRUE
       IN IF ~Truthy(pa)
          THEN {Res(<<"Sorry, I didn't catch what to delete.">>, <<>>)}
          ELSE LET path == Strip(pa.v)
                   ask == "Are you sure you want to delete " \o path
                          \o "? Please confirm by saying yes or no."
               IN IF confirmation
                  THEN {[Res(<<ask, "Deleting " \o path \o ".",
                               IF o.ok THEN path \o " has been deleted."
                               ELSE "I couldn't delete " \o path
                                    \o ". Please check that the path exists and try again.">>,
                             <<Call("system_handler", "delete_item", path, Bool(o.ok), 2)>>)
                         EXCEPT !.fs = o.fs]
                        : o \in delete_item(fs, path)}
                  ELSE {Res(<<ask, "Delete operation cancelled.">>, <<>>)}

_delete_directory(command_text, args, kwargs) ==
  IF ~system_handler THEN {Res(<<SystemUnavailable>>, <<>>)}
  ELSE LET dp == FirstArg(args, kwargs, "dir_path")
           confirmation == TRUE
       IN IF ~Truthy(dp)
          THEN {Res(<<"Sorry, I didn't catch which directory to delete.">>, <<>>)}
          ELSE LET dir_path == Strip(dp.v)
                   ask == "Are you sure you want to delete the directory " \o dir_path
                          \o "? This cannot be undone. Please confirm yes or no."
               IN IF confirmation
                  THEN {[Res(<<ask, "Deleting directory " \o dir_path \o ".",
                               IF o.ok THEN "Directory " \o dir_path \o " has been deleted."
                               ELSE "I couldn't delete the directory " \o dir_path
                                    \o ". Please check that it exists and try again.">>,
                             <<Call("system_handler", "delete_item", dir_path, Bool(o.ok), 2)>>)
                         EXCEPT !.fs = o.fs]
                        : o \in delete_item(fs, dir_path)}
                  ELSE {Res(<<ask, "Directory deletion cancelled.">>, <<>>)}

_update_directory(command_text, args, kwargs) ==
  IF ~system_handler THEN {Res(<<SystemUnavailable>>, <<>>)}
  ELSE LET dp == FirstArg(args, kwargs, "dir_path")
       IN IF ~Truthy(dp)
          THEN {Res(<<"Sorry, I didn't catch which directory to update.">>, <<>>)}
          ELSE LET dir_path == Strip(dp.v)
                   ask == "What would you like to rename the directory " \o dir_path \o " to?"
                   new_name == dir_path \o "_updated"
                   old_path == _resolve_path(dir_path)
                   new_path == PathJoin(Parent(old_path), new_name)
               IN IF ~PathExists(fs, old_path)
                  THEN {Res(<<ask, "I couldn't find the directory " \o dir_path
                                   \o ". Please check the path and try again.">>, <<>>)}
                  ELSE {Res(<<ask, "I couldn't rename the directory. <error>">>,
                            <<Call("os", "rename", old_path, "raise", 1)>>)} \cup
                       (IF RenameAllowed(fs, old_path, new_path)
                        THEN {[Res(<<ask, "Directory " \o dir_path \o " has been renamed to "
                                         \o new_name \o ".">>,
                                   <<Call("os", "rename", old_path, "ok", 1)>>)
                               EXCEPT !.fs = Rename(fs, old_path, new_path)]}
                        ELSE {})

_insert_into_directory(command_text, args, kwargs) ==
  IF ~system_handler THEN {Res(<<SystemUnavailable>>, <<>>)}
  ELSE LET dp == FirstArg(args, kwargs, "dir_path")
       IN IF ~Truthy(dp)
          THEN {Res(<<"Sorry, I didn't catch which directory to insert into.">>, <<>>)}
          ELSE LET dir_path == Strip(dp.v)
                   dir_path_obj == _resolve_path(dir_path)
                   file_name == "jarvis_note.txt"
                   file_path == PathJoin(dir_path_obj, file_name)
               IN IF ~IsDir(fs, dir_path_obj)
                  THEN {Res(<<"I couldn't find the directory " \o dir_path
                              \o ". Please check the path and try again.">>, <<>>)}
                  ELSE {[Res(<<"What file would you like to create in " \o dir_path \o "?",
                               IF o.ok
                               THEN "File " \o file_name \o " has been created in "
                                    \o dir_path \o "."
                               ELSE "I couldn't create the file in " \o dir_path
                                    \o ". Please check permissions and try again.">>,
                             <<Call("system_handler", "create_file", file_path, Bool(o.ok), 1)>>)
                         EXCEPT !.fs = o.fs]
                        : o \in create_file(fs, file_path, "This file was created by Jarvis.")}

dangerous_commands == <<"rm -rf", "deltree", "format", "del /f", "drop database">>

HarmfulCommand ==
  "I'm sorry, that command appears to be potentially harmful. For safety reasons, I cannot execute it."

\* the denylist compared with the command as typed
IsDangerousAsTyped(command) ==
  \E k \in 1..Len(dangerous_commands) : Contains(command, dangerous_commands[k])

IsDangerous(command) ==
  \E k \in 1..Len(dangerous_commands) : Contains(Lower(command), dangerous_commands[k])

\* what subprocess.run can report: success with or without output, failure
ShellReports ==
  {[ok |-> TRUE, output |-> ""], [ok |-> TRUE, output |-> "<stdout>"],
   [ok |-> FALSE, output |-> "<stderr>"]}

_execute_command(command_text, args, kwargs) ==
  IF ~system_handler THEN {Res(<<SystemUnavailable>>, <<>>)}
  ELSE LET co == FirstArg(args, kwargs, "command")
       IN IF ~Truthy(co)
          THEN {Res(<<"Sorry, I didn't catch which command to execute.">>, <<>>)}
          ELSE LET command == Strip(co.v)
               IN IF IsDangerous(command)
                  THEN {Res(<<HarmfulCommand>>, <<>>)}
                  ELSE {Res(SpeakAll(<<"Executing command: " \o command>>,
                              IF o.ok
                              THEN <<"Command executed successfully.",
                                     IF o.output # "" THEN "Command output: " \o o.output
                                     ELSE "">>
                              ELSE <<"Command execution failed. Error: " \o o.output>>),
                            <<Call("system_handler", "execute_command", command, Bool(o.ok), 1)>>)
                        : o \in ShellReports}

(***************************************************************************)
(* Handlers: time, weather, knowledge, personality                         *)
(***************************************************************************)
Digits == "0123456789"
TwoDigits(n) == CharAt(Digits, (n \div 10) + 1) \o CharAt(Digits, (n % 10) + 1)

\* now.strftime("%I:%M %p")
StrfTime12(now) ==
  TwoDigits(IF now.hour % 12 = 0 THEN 12 ELSE now.hour % 12) \o ":"
  \o TwoDigits(now.minute) \o " " \o (IF now.hour < 12 THEN "AM" ELSE "PM")

\* the instants datetime.now() is taken at, with strftime("%A, %B %d, %Y")
Clock ==
  {[hour |-> 0, minute |-> 5, date |-> "Monday, November 02, 2026"],
   [hour |-> 12, minute |-> 0, date |-> "Monday, November 02, 2026"],
   [hour |-> 23, minute |-> 59, date |-> "Tuesday, November 03, 2026"]}

_get_time_date(command_text) ==
  {Res(<<IF Contains(Lower(command_text), "time")
         THEN "The current time is " \o StrfTime12(now)
         ELSE "Today is " \o now.date>>, <<>>) : now \in Clock}

_get_weather(command_text, location) ==
  IF ~Truthy(location)
  THEN {Res(<<"For which location would you like the weather?">>, <<>>)}
  ELSE {Res(<<"I'm sorry, I don't have access to current weather data for " \o location.v
              \o ". You would need to integrate a weather API for this functionality.">>, <<>>)}

\* re.search: the leftmost offset at which the pattern matches
ReSearch(r, text) ==
  \E i \in 0..Len(text) : M(r, text, i, [n \in 1..NGroups(r) |-> None]) # <<>>

\* r'(what|who|where|when) (?:is|are|was|were) (.*)'
SubjectPattern ==
  Cat(<<Grp(1, "", Alt(<<Lit("what"), Lit("who"), Lit("where"), Lit("when")>>)), Lit(" "),
        Alt(<<Lit("is"), Lit("are"), Lit("was"), Lit("were")>>), Lit(" "),
        Grp(2, "", Opt(DotPlus))>>)

\* what the chat-completion call yields: an answer (possibly empty once
\* stripped) or an exception
LlmReplies == {"<answer>", "", "raise"}
\* what wikipedia.summary yields
WikiReplies == {"<summary>", "DisambiguationError-then-summary", "DisambiguationError-then-error",
                "PageError", "raise"}

LlmCall(reply) ==
  Call("openai_client", "chat.completions.create", "",
       IF reply = "raise" THEN "raise" ELSE "ok", 0)
WikiCall(reply, said) == Call("wikipedia", "summary", "", reply, said)

AnswerFallback ==
  "I'm sorry, I don't have an answer for that question right now. Please try asking something else."

\* the Wikipedia stage and the canned fallback of _answer_question
AnswerFromWikipedia(command_text, said, calls) ==
  IF ReSearch(SubjectPattern, command_text)
  THEN {Res(Speak(said, IF w \in {"<summary>", "DisambiguationError-then-summary"}
                        THEN "<summary>" ELSE AnswerFallback),
            Append(calls, WikiCall(w, Len(said)))) : w \in WikiReplies}
  ELSE {Res(Speak(said, AnswerFallback), calls)}

\* a handler that goes to Wikipedia without trying the language model
_answer_question_wikipedia_only(command_text) ==
  AnswerFromWikipedia(command_text, <<>>, <<>>)

_answer_question(command_text) ==
  IF openai_enabled
  THEN UNION {IF l = "raise"
              THEN AnswerFromWikipedia(command_text,
                     <<"I had trouble connecting to my knowledge base. Let me try a different approach.">>,
                     <<LlmCall(l)>>)
              ELSE {Res(Speak(<<>>, l), <<LlmCall(l)>>)} : l \in LlmReplies}
  ELSE AnswerFromWikipedia(command_text, <<>>, <<>>)

\* sys.exit(0) raises SystemExit
_shutdown(command_text) ==
  {Raise(Res(<<"Shutting down. Goodbye, sir.">>, <<>>), "SystemExit")}

_introduce_self(command_text) ==
  {Res(<<"I am JARVIS, a virtual assistant inspired by Tony Stark's AI in the Iron Man films. I'm here to assist you with information, answer questions, and help with various tasks.">>, <<>>)}

MoodResponses ==
  {"I'm functioning within normal parameters, thank you for asking.",
   "All systems are operating at optimal efficiency.",
   "I'm doing well, sir. How can I assist you today?",
   "I'm operating at peak performance levels."}

_mood_response(command_text) == {Res(<<r>>, <<>>) : r \in MoodResponses}

WelcomeResponses ==
  {"You're welcome, sir.", "Happy to be of service.", "At your service, sir.",
   "It's my pleasure."}

_youre_welcome(command_text) == {Res(<<r>>, <<>>) : r \in WelcomeResponses}

_help_command(command_text) == {Res(<<"<help text>">>, <<>>)}

system_operation_keywords ==
  <<"create", "make", "open", "launch", "start", "run", "execute", "delete", "remove",
    "folder", "directory", "file">>

launch_keywords == <<"open", "launch", "start", "run">>

DefaultResponses ==
  {"I'm not sure how to help with that. Try asking about the time, weather, or for general information.",
   "I don't understand that command. Say 'help' for a list of things I can do.",
   "Could you please rephrase that?",
   "I'm afraid I don't have a response for that.",
   "I'm still learning. I don't know how to respond to that yet."}

MentionsDirectory(t) ==
  Contains(t, "folder") \/ Contains(t, "directory") \/ Contains(t, "dir")

\* the first launch keyword in the text with something after it, 0 when none
RECURSIVE LaunchKeyword(_, _)
LaunchKeyword(t, k) ==
  IF k > Len(launch_keywords) THEN 0
  ELSE IF Contains(t, launch_keywords[k])
          /\ Strip(AfterFirst(t, launch_keywords[k])) # ""
       THEN k
       ELSE LaunchKeyword(t, k + 1)

\* the language-model stage and the canned replies of _default_response
DefaultFromModel ==
  (IF openai_enabled
   THEN {Res(Speak(<<>>, l), <<LlmCall(l)>>) : l \in LlmReplies \ {"raise"}}
   ELSE {}) \cup
  {Res(<<r>>, IF openai_enabled THEN <<LlmCall("raise")>> ELSE <<>>) : r \in DefaultResponses}

_default_response(command_text) ==
  LET t == Lower(command_text)
      isOp == \E k \in 1..Len(system_operation_keywords) :
                Contains(t, system_operation_keywords[k])
  IN IF isOp /\ (Contains(t, "create") \/ Contains(t, "make")) /\ MentionsDirectory(t)
     THEN _create_directory_prompt(command_text, <<>>, {})
     ELSE IF isOp /\ (Contains(t, "delete") \/ Contains(t, "remove")) /\ MentionsDirectory(t)
     THEN {Res(<<"Please specify the name of the directory you want to delete.">>, <<>>)}
     ELSE IF isOp /\ (Contains(t, "update") \/ Contains(t, "rename")) /\ MentionsDirectory(t)
     THEN {Res(<<"Please specify the name of the directory you want to update or rename.">>, <<>>)}
     ELSE IF isOp /\ Contains(t, "insert") /\ MentionsDirectory(t)
     THEN {Res(<<"Please specify the directory where you want to insert a file.">>, <<>>)}
     ELSE IF isOp /\ Contains(t, "file") /\ (Contains(t, "create") \/ Contains(t, "make"))
     THEN {Res(<<"Please specify a name for the file you want to create.">>, <<>>)}
     ELSE IF isOp /\ LaunchKeyword(t, 1) # 0
     THEN _open_application(command_text,
            <<Some(Strip(AfterFirst(t, launch_keywords[LaunchKeyword(t, 1)])))>>, {})
     ELSE DefaultFromModel

(***************************************************************************)
(* SecurityManager operations, as the outcomes they can have               *)
(***************************************************************************)
\* update_privacy_settings({key: value}): the file is written first and the
\* in-memory mapping replaced only when that succeeded
update_privacy_settings(settings, file, key, value) ==
  LET updated_settings == SetKey(settings, key, value)
  IN {[ok |-> TRUE, privacy_settings |-> updated_settings,
       privacy_file |-> FileOf(updated_settings)],
      [ok |-> FALSE, privacy_settings |-> settings, privacy_file |-> file]}

\* _save_secure_storage(data): False when the data cannot be serialised or
\* the file cannot be written
_save_secure_storage(data, file, key) ==
  IF ~StorageSerializable(data) THEN {[ok |-> FALSE, file |-> file]}
  ELSE {[ok |-> TRUE, file |-> FileOf(Encrypt(key, JsonDumpsStorage(data)))],
        [ok |-> FALSE, file |-> file]}

\* _load_privacy_settings(): the mapping it returns and the file it leaves.
\* The stored mapping always has every default key, so nothing is merged.
_load_privacy_settings(file) ==
  IF ~file.exists
  THEN {[settings |-> default_settings, privacy_file |-> FileOf(default_settings)],
        [settings |-> default_settings, privacy_file |-> file]}
  ELSE {[settings |-> file.data, privacy_file |-> file]}

\* clear_all_data(): empties the secure storage, saves it, and calls
\* _load_privacy_settings() without using what it returns
clear_all_data(r) ==
  {[r EXCEPT !.secure_storage = <<>>,
             !.secure_storage_file = s.file,
             !.privacy_file = l.privacy_file]
   : s \in _save_secure_storage(<<>>, r.secure_storage_file, cipher_suite),
     l \in _load_privacy_settings(r.privacy_file)}

(***************************************************************************)
(* Handlers: security and privacy                                          *)
(***************************************************************************)
setting_map ==
  {<<"system info", "collect_system_info">>,
   <<"system information", "collect_system_info">>,
   <<"usage", "collect_usage_data">>,
   <<"usage data", "collect_usage_data">>,
   <<"command history", "store_command_history">>,
   <<"network", "allow_network_access">>,
   <<"internet", "allow_network_access">>,
   <<"file system", "allow_file_system_access">>,
   <<"file access", "allow_file_system_access">>,
   <<"file", "allow_file_system_access">>,
   <<"process", "allow_process_management">>,
   <<"application", "allow_process_management">>}

\* a lookup that also takes a name beginning with a key
SettingKeyByPrefix(name) ==
  IF \E e \in setting_map : StartsWith(name, e[1])
  THEN (CHOOSE e \in setting_map : StartsWith(name, e[1]))[2] ELSE ""

\* setting_map.get(name): "" when the name is not a key
SettingKey(name) ==
  IF \E e \in setting_map : e[1] = name
  THEN (CHOOSE e \in setting_map : e[1] = name)[2] ELSE ""

\* r"(?:enable|turn on) (.+?) (?:data collection|tracking|monitoring)" and
\* its disable twin, searched for when no setting was passed
TogglePattern(enable) ==
  Cat(<<IF enable THEN Alt(<<Lit("enable"), Lit("turn on")>>)
        ELSE Alt(<<Lit("disable"), Lit("turn off")>>),
        Lit(" "), Grp(1, "", DotPlusLazy), Lit(" "),
        Alt(<<Lit("data collection"), Lit("tracking"), Lit("monitoring")>>)>>)

\* match.group(1) of re.search, None when there is no match
SearchGroup1(r, text) ==
  LET at == {i \in 0..Len(text) : M(r, text, i, [n \in 1..NGroups(r) |-> None]) # <<>>}
  IN IF at = {} THEN None
     ELSE M(r, text, CHOOSE i \in at : \A j \in at : i <= j,
            [n \in 1..NGroups(r) |-> None])[1].c[1]

UnknownSetting(name) ==
  "I'm not familiar with the privacy setting '" \o name
  \o "'. Available settings include system info, usage data, command history, network access, file access, and application management."

\* _handle_enable_privacy_setting (enable = TRUE) and
\* _handle_disable_privacy_setting (enable = FALSE)
TogglePrivacySetting(enable, command_text, setting) ==
  IF ~security_manager THEN {Res(<<SecurityUnavailable>>, <<>>)}
  ELSE LET given == IF Truthy(setting) THEN setting
                    ELSE SearchGroup1(TogglePattern(enable), command_text)
           verb == IF enable THEN "enable" ELSE "disable"
       IN IF ~given.some
          THEN {Res(<<"Please specify a privacy setting to " \o verb \o ".">>, <<>>)}
          ELSE LET setting_name == Lower(Strip(given.v))
                   setting_key == SettingKey(setting_name)
               IN IF setting_key = ""
                  THEN {Res(<<UnknownSetting(setting_name)>>, <<>>)}
                  ELSE {[Res(<<"I've " \o verb \o "d " \o setting_name \o " data collection.">>,
                             <<Call("security_manager", "update_privacy_settings",
                                    setting_key, Bool(u.ok), 0)>>)
                         EXCEPT !.privacy_settings = u.privacy_settings,
                                !.privacy_file = u.privacy_file]
                        : u \in update_privacy_settings(privacy_settings, privacy_file,
                                                        setting_key, enable)}

_handle_enable_privacy_setting(command_text, setting) ==
  TogglePrivacySetting(TRUE, command_text, setting)

_handle_disable_privacy_setting(command_text, setting) ==
  TogglePrivacySetting(FALSE, command_text, setting)

RECURSIVE JoinWith(_, _)
JoinWith(parts, sep) ==
  IF parts = <<>> THEN ""
  ELSE IF Len(parts) = 1 THEN parts[1]
  ELSE parts[1] \o sep \o JoinWith(Tail(parts), sep)

SettingNames ==
  <<<<"collect_system_info", "System information collection">>,
    <<"collect_usage_data", "Usage data collection">>,
    <<"store_command_history", "Command history storage">>,
    <<"allow_network_access", "Network access">>,
    <<"allow_file_system_access", "File system access">>,
    <<"allow_process_management", "Application management">>>>

\* str(n) for a small count
RECURSIVE Str(_)
Str(n) == IF n < 10 THEN CharAt(Digits, n + 1) ELSE Str(n \div 10) \o CharAt(Digits, (n % 10) + 1)

PrivacyReport(settings) ==
  LET names(on) == SelectSeq(SettingNames, LAMBDA e : settings[e[1]] = on)
      label(q) == [k \in 1..Len(q) |-> q[k][2]]
      enabled_settings == label(names(TRUE))
      disabled_settings == label(names(FALSE))
  IN "Current privacy settings: "
     \o (IF enabled_settings # <<>>
         THEN "Enabled: " \o JoinWith(enabled_settings, ", ") \o ". " ELSE "")
     \o (IF disabled_settings # <<>>
         THEN "Disabled: " \o JoinWith(disabled_settings, ", ") \o ". " ELSE "")
     \o (IF settings.sensitive_directories # <<>>
         THEN "Protected directories: " \o Str(Len(settings.sensitive_directories)) \o "."
         ELSE "")

_handle_show_privacy_settings_recording(command_text) ==
  IF ~security_manager THEN {Res(<<SecurityUnavailable>>, <<>>)}
  ELSE {[Res(<<PrivacyReport(privacy_settings)>>, <<>>)
           EXCEPT !.privacy_settings.collect_usage_data = ~@]}

_handle_show_privacy_settings(command_text) ==
  IF ~security_manager THEN {Res(<<SecurityUnavailable>>, <<>>)}
  ELSE {Res(<<PrivacyReport(privacy_settings)>>, <<>>)}

\* the confirmation is not listened for: `confirmed = True'
_handle_clear_data(command_text) ==
  IF ~security_manager THEN {Res(<<SecurityUnavailable>>, <<>>)}
  ELSE LET confirmed == TRUE
           ask == "Are you sure you want to clear all your stored data? This cannot be undone. Please say yes or no."
       IN IF confirmed
          THEN clear_all_data(
                 Res(<<ask, "All your stored data has been cleared, and privacy settings have been reset to defaults.">>,
                     <<Call("security_manager", "clear_all_data", "", "True", 1)>>))
          ELSE {Res(<<ask, "Data clearing operation canceled.">>, <<>>)}

\* the list is appended to in place before update_privacy_settings is called
_handle_add_sensitive_directory(command_text, directory) ==
  IF ~security_manager THEN {Res(<<SecurityUnavailable>>, <<>>)}
  ELSE LET given == IF Truthy(directory) THEN directory
                    ELSE SearchGroup1(Cat(<<Lit("add sensitive directory "), Grp(1, "", DotPlus)>>),
                                      command_text)
       IN IF ~given.some
          THEN {Res(<<"Please specify a directory to protect.">>, <<>>)}
          ELSE IF ~system_handler
          THEN {Res(<<"I had trouble adding this directory as a protected directory.">>, <<>>)}
          ELSE LET directory_path == _resolve_path(Strip(given.v))
                   sensitive_dirs == privacy_settings.sensitive_directories
                   appended == [privacy_settings EXCEPT
                                  !.sensitive_directories = Append(sensitive_dirs, directory_path)]
               IN IF SeqContains(sensitive_dirs, directory_path)
                  THEN {Res(<<given.v \o " is already in the list of protected directories.">>, <<>>)}
                  ELSE {[Res(<<"I've added " \o given.v
                               \o " to protected directories. Files in this location will be secure.">>,
                             <<Call("security_manager", "update_privacy_settings",
                                    "sensitive_directories", Bool(u.ok), 0)>>)
                         EXCEPT !.privacy_settings = appended,
                                !.privacy_file = u.privacy_file]
                        : u \in update_privacy_settings(appended, privacy_file,
                                  "sensitive_directories",
                                  Append(sensitive_dirs, directory_path))}

AccessLogKey == StrKey("access_log")

_handle_show_data_access_log(command_text) ==
  IF ~security_manager THEN {Res(<<SecurityUnavailable>>, <<>>)}
  ELSE LET access_log == DictGet(secure_storage, AccessLogKey, PyList(<<>>))
       IN IF access_log.items = <<>> /\ access_log.atom = ""
          THEN {Res(<<"There is no data access history to display.">>, <<>>)}
          ELSE {Res(<<"Recent data access activity: <entries>">>, <<>>),
                Res(<<"I encountered an error while showing the data access log.">>, <<>>)}

_handle_data_security_status(command_text) ==
  IF ~security_manager THEN {Res(<<SecurityUnavailable>>, <<>>)}
  ELSE {Res(<<"Data Security Status: "
              \o (IF secure_storage_file.exists /\ privacy_file.exists
                  THEN "Your data is secure. Encryption is enabled, secure storage is set up, and privacy settings are configured."
                  ELSE "There may be issues with your data security. "
                       \o (IF ~secure_storage_file.exists
                           THEN "Secure storage has not been set up. " ELSE "")
                       \o (IF ~privacy_file.exists
                           THEN "Privacy settings are not configured. " ELSE ""))>>, <<>>)}

(***************************************************************************)
(* Handlers: read-only queries of the system analyzer and device monitor.  *)
(* The collaborator's report is spoken line by line; a report that lacks   *)
(* an expected field makes the handler raise (KeyError).                   *)
(***************************************************************************)
QueryHandler(available, unavailable, target) ==
  IF ~available THEN {Res(<<unavailable>>, <<>>)}
  ELSE {Res(<<"<" \o target \o " report>">>, <<Call(target, "query", "", "ok", 0)>>),
        Raise(Res(<<>>, <<Call(target, "query", "", "raise", 0)>>), "Exception")}

AnalyzerQueries ==
  {"_get_system_info", "_get_cpu_info", "_get_memory_info", "_get_disk_info",
   "_get_network_info", "_get_graphics_info", "_get_running_processes",
   "_get_installed_applications", "_get_system_health"}

DeviceQueries ==
  {"_get_connected_devices", "_get_monitor_info", "_get_printer_info", "_get_usb_devices",
   "_get_audio_devices", "_get_bluetooth_devices", "_scan_for_new_devices"}

_search_files(command_text, args, kwargs) ==
  IF ~system_analyzer THEN {Res(<<AnalyzerUnavailable>>, <<>>)}
  ELSE LET byName == Truthy(KwGet(kwargs, "pattern")) /\ Truthy(KwGet(kwargs, "path"))
           pattern == IF ~byName /\ Len(args) >= 2 THEN args[1] ELSE KwGet(kwargs, "pattern")
           path == IF ~byName /\ Len(args) >= 2 THEN args[2] ELSE KwGet(kwargs, "path")
       IN IF ~Truthy(pattern) \/ ~Truthy(path)
          THEN {Res(<<"Please specify both a file pattern and a path to search in.">>, <<>>)}
          ELSE LET intro == "Searching for " \o Strip(pattern.v) \o " in " \o Strip(path.v)
                            \o ". This may take a moment."
               IN {Res(<<intro, outcome>>,
                       <<Call("system_analyzer", "search_files", Strip(path.v), "ok", 1)>>)
                   : outcome \in {"No files matching " \o Strip(pattern.v) \o " were found in "
                                    \o Strip(path.v) \o ".",
                                  "I found <n> files matching " \o Strip(pattern.v) \o "."}}
                  \cup
                  {Res(<<intro, "I encountered an error while searching for files. <error>">>,
                       <<Call("system_analyzer", "search_files", Strip(path.v), "raise", 1)>>)}

_analyze_file_types(command_text, args, kwargs) ==
  IF ~system_analyzer THEN {Res(<<AnalyzerUnavailable>>, <<>>)}
  ELSE LET directory == FirstArg(args, kwargs, "directory")
       IN IF ~Truthy(directory)
          THEN {Res(<<"Please specify a directory to analyze.">>, <<>>)}
          ELSE LET d == Strip(directory.v)
                   intro == "Analyzing files in " \o d \o ". This may take a moment."
               IN {Res(<<intro, outcome>>,
                       <<Call("system_analyzer", "analyze_file_types", d, "ok", 1)>>)
                   : outcome \in {"No files were found in " \o d \o ".",
                                  "I found <n> files in " \o d \o ", using <size> of disk space."}}
                  \cup
                  {Res(<<intro, "I encountered an error while analyzing file types. <error>">>,
                       <<Call("system_analyzer", "analyze_file_types", d, "raise", 1)>>)}

(***************************************************************************)
(* The body of each handler, once Python has bound the arguments           *)
(***************************************************************************)
HandlerBody(h, command_text, args, kwargs) ==
  CASE h = "_get_time_date" -> _get_time_date(command_text)
    [] h = "_get_weather" ->
         _get_weather(command_text, ParamValue(h, args, kwargs, "location"))
    [] h \in AnalyzerQueries -> QueryHandler(system_analyzer, AnalyzerUnavailable, "system_analyzer")
    [] h \in DeviceQueries -> QueryHandler(device_monitor, DeviceUnavailable, "device_monitor")
    [] h = "_search_files" -> _search_files(command_text, args, kwargs)
    [] h = "_analyze_file_types" -> _analyze_file_types(command_text, args, kwargs)
    [] h = "_open_application" -> _open_application(command_text, args, kwargs)
    [] h = "_create_directory" -> _create_directory(command_text, args, kwargs)
    [] h = "_create_directory_prompt" -> _create_directory_prompt(command_text, args, kwargs)
    [] h = "_delete_directory" -> _delete_directory(command_text, args, kwargs)
    [] h = "_update_directory" -> _update_directory(command_text, args, kwargs)
    [] h = "_insert_into_directory" -> _insert_into_directory(command_text, args, kwargs)
    [] h = "_create_file" -> _create_file(command_text, args, kwargs)
    [] h = "_delete_item" -> _delete_item(command_text, args, kwargs)
    [] h = "_execute_command" -> _execute_command(command_text, args, kwargs)
    [] h = "_answer_question" -> _answer_question(command_text)
    [] h = "_shutdown" -> _shutdown(command_text)
    [] h = "_introduce_self" -> _introduce_self(command_text)
    [] h = "_mood_response" -> _mood_response(command_text)
    [] h = "_youre_welcome" -> _youre_welcome(command_text)
    [] h = "_help_command" -> _help_command(command_text)
    [] h = "_handle_enable_privacy_setting" ->
         _handle_enable_privacy_setting(command_text, ParamValue(h, args, kwargs, "setting"))
    [] h = "_handle_disable_privacy_setting" ->
         _handle_disable_privacy_setting(command_text, ParamValue(h, args, kwargs, "setting"))
    [] h = "_handle_show_privacy_settings" -> _handle_show_privacy_settings(command_text)
    [] h = "_handle_clear_data" -> _handle_clear_data(command_text)
    [] h = "_handle_add_sensitive_directory" ->
         _handle_add_sensitive_directory(command_text, ParamValue(h, args, kwargs, "directory"))
    [] h = "_handle_show_data_access_log" -> _handle_show_data_access_log(command_text)
    [] h = "_handle_data_security_status" -> _handle_data_security_status(command_text)
    [] h = "_default_response" -> _default_response(command_text)

(***************************************************************************)
(* CommandProcessor.process_command                                        *)
(***************************************************************************)
DidNotCatch == "I didn't catch that. Can you please repeat?"
GenericError == "I encountered an error while processing that command."
DoNotUnderstand == "I'm sorry, I don't understand that command."

\* a dispatcher whose handler names one exception class only
CaughtValueErrorOnly(exc) == exc = "ValueError"

\* a dispatcher with a bare `except:', which SystemExit does not pass
CaughtByDispatcherBare(exc) == exc \in {"TypeError", "Exception", "SystemExit"}

\* `except Exception' catches a TypeError of the call and any Exception the
\* handler raises; SystemExit derives from BaseException only
CaughtByDispatcher(exc) == exc \in {"TypeError", "Exception"}

Dispatched(input, text, rule, called, entered, r) ==
  [op |-> "process_command", input |-> input, text |-> text, rule |-> rule,
   called |-> called, entered |-> entered,
   utterances |-> IF CaughtByDispatcher(r.raised) THEN Speak(r.say, GenericError) ELSE r.say,
   calls |-> r.calls, raised |-> r.raised,
   outcome |-> IF r.raised = "none" \/ CaughtByDispatcher(r.raised)
               THEN "returned" ELSE r.raised,
   fs |-> r.fs, privacy_settings |-> r.privacy_settings, privacy_file |-> r.privacy_file,
   secure_storage |-> r.secure_storage, secure_storage_file |-> r.secure_storage_file]

\* spoken phrases, as the recogniser hands them to process_command
Phrases ==
  {"", "   ", "what time is it", "What's today's date?", "Who are you?",
   "How are you today?", "Run command dir", "Execute command ipconfig",
   "run command rm -rf /", "execute command rm -rf /", "execute the command FORMAT c:",
   "enable network data collection", "enable foo data collection",
   "disable network tracking", "add sensitive directory secret",
   "create a folder called notes", "create a folder", "i want to make a folder",
   "create a file called notes.txt", "insert into folder old",
   "delete the folder old", "delete file notes.txt", "remove desktopx",
   "update folder called old", "clear all data", "show privacy settings",
   "is my data secure", "show data access log", "what is the system health",
   "who is alan turing", "tell me about python", "please open notepad",
   "find files report in documents", "exit", "thanks", "help", "hello", "jarv hello",
   "bye", "quit", "shutdown", "goodbye"}

\* the phrases a session of the assistant is given
Inputs ==
  {"", "   ", "what time is it", "What's today's date?", "Who are you?",
   "Run command dir", "Execute command ipconfig",
   "run command rm -rf /", "execute command rm -rf /",
   "enable network data collection", "disable network tracking",
   "create a folder called notes", "create a folder", "delete the folder old",
   "delete file notes.txt", "clear all data", "show privacy settings",
   "is my data secure", "who is alan turing", "How are you today?", "exit", "thanks",
   "hello"}

\* the rule process_command selects for each phrase, with the captures
Route ==
  [input \in Phrases |->
     LET text == Strip(Lower(input))
         rule == FirstMatch(text)
         caps == IF rule = 0 THEN <<>> ELSE ReMatch(commands[rule].pattern, text)[1]
     IN [text |-> text, rule |-> rule, args |-> caps,
         kwargs |-> IF rule = 0 THEN {} ELSE GroupDict(commands[rule].pattern, caps)]]

\* every way process_command(command_text) can go
process_command(command_text) ==
  IF command_text = ""
  THEN {Dispatched(command_text, "", 0, <<>>, <<>>, Res(<<DidNotCatch>>, <<>>))}
  ELSE LET rt == Route[command_text]
       IN IF rt.rule = 0
          THEN {Dispatched(command_text, rt.text, 0, <<>>, <<>>, Res(<<DoNotUnderstand>>, <<>>))}
          ELSE LET handler == commands[rt.rule].handler
               IN IF ~BindOk(handler, rt.args, rt.kwargs)
                  THEN {Dispatched(command_text, rt.text, rt.rule, <<handler>>, <<>>,
                                   Raise(Res(<<>>, <<>>), "TypeError"))}
                  ELSE {Dispatched(command_text, rt.text, rt.rule, <<handler>>, <<handler>>, r)
                        : r \in HandlerBody(handler, rt.text, rt.args, rt.kwargs)}

NoDispatch ==
  [op |-> "none", input |-> "", text |-> "", rule |-> 0, called |-> <<>>, entered |-> <<>>,
   utterances |-> <<>>, calls |-> <<>>, raised |-> "none", outcome |-> "returned"]

NoSecureCall == [op |-> "none", key |-> NoKey, value |-> PyNone, ok |-> TRUE, at |-> 0]

\* no call of the listener, of Jarvis.run or of _resolve_path has been made
NoHearing == [mic |-> "none", capture |-> "none", google |-> None, sphinx |-> None]
NotListening ==
  [call |-> "none", pc |-> "idle", wake_word |-> "", timeout |-> None, attempts |-> 0,
   heard |-> NoHearing, result |-> None]
NotStarted ==
  [pc |-> "none", command |-> None, said |-> <<>>, raised |-> "none", exit |-> "none"]
NotResolved == [path |-> "", result |-> ""]
NotDirect ==
  [pc |-> "none", num_questions |-> 0, i |-> 0, listens |-> 0, dispatches |-> 0,
   command |-> None, said |-> <<>>, raised |-> "none"]
NoSession ==
  /\ listening = NotListening /\ run = NotStarted /\ resolved = NotResolved
  /\ direct = NotDirect

(***************************************************************************)
(* Init: the state once Jarvis has been constructed on a fresh data        *)
(* directory.  The system handler, the security manager and the language   *)
(* model client may each have failed to initialise; the analyzer and the   *)
(* device monitor, whose handlers no phrase of Inputs reaches, are there.  *)
(***************************************************************************)
InitFs ==
  {Dir("/home"), Dir(user_home), Dir(desktop), Dir(documents), Dir(downloads), Dir(cwd),
   Dir(cwd \o "/old"), File(cwd \o "/old/report.txt", "report"),
   File(cwd \o "/notes.txt", "my notes")}

InitSecurity ==
  /\ keys_made = 1
  /\ cipher_suite = 1
  /\ privacy_settings = default_settings
  /\ privacy_file = FileOf(default_settings)
  /\ secure_storage = <<>>
  /\ secure_storage_file = FileOf(Encrypt(1, JsonDumpsStorage(<<>>)))
  /\ restarts = 0
  /\ sec = NoSecureCall

Init ==
  /\ system_handler \in BOOLEAN
  /\ system_analyzer = TRUE
  /\ device_monitor = TRUE
  /\ security_manager \in BOOLEAN
  /\ openai_enabled \in BOOLEAN
  /\ fs = InitFs
  /\ InitSecurity
  /\ key_file = FileOf(1)
  /\ running = TRUE
  /\ last = NoDispatch
  /\ NoSession

\* main.py hands a phrase to process_command
ProcessCommand(input) ==
  /\ running
  /\ \E d \in process_command(input) :
       /\ last' = [f \in DOMAIN NoDispatch |-> d[f]]
       /\ fs' = d.fs
       /\ privacy_settings' = d.privacy_settings
       /\ privacy_file' = d.privacy_file
       /\ secure_storage' = d.secure_storage
       /\ secure_storage_file' = d.secure_storage_file
       /\ running' = (d.outcome = "returned")
  /\ UNCHANGED <<collaborators, key_file, cipher_suite, keys_made, restarts, sec, session_vars>>

Next == \E input \in Inputs : ProcessCommand(input)

Spec == Init /\ [][Next]_vars

(***************************************************************************)
(* SecurityManager's secure storage over the life of its backing files:    *)
(* store, get, delete, and a restart of the process that constructs the    *)
(* manager again on the same data directory.                               *)
(***************************************************************************)
\* _initialize_encryption(): the cipher key it returns and the key file it
\* leaves.  An I/O error on the key file ends in a temporary key that is
\* never written.
_initialize_encryption(file, made) ==
  IF ~file.exists
  THEN {[cipher_suite |-> made + 1, key_file |-> FileOf(made + 1), keys_made |-> made + 1],
        [cipher_suite |-> made + 2, key_file |-> file, keys_made |-> made + 2]}
  ELSE {[cipher_suite |-> file.data, key_file |-> file, keys_made |-> made],
        [cipher_suite |-> made + 1, key_file |-> file, keys_made |-> made + 1]}

\* _load_secure_storage(): the mapping it returns and the file it leaves.  A
\* missing file, and one that cannot be read or decrypted, are answered
\* with an empty mapping that is saved at once.
_load_secure_storage(file, key) ==
  LET fresh == {[secure_storage |-> <<>>, secure_storage_file |-> s.file]
                : s \in _save_secure_storage(<<>>, file, key)}
  IN IF ~file.exists THEN fresh
     ELSE fresh \cup
          (IF CanDecrypt(key, file.data)
           THEN {[secure_storage |-> JsonLoadsStorage(file.data.data),
                  secure_storage_file |-> file]}
           ELSE {})

\* store_secure_data(key, data): the entry is put into the mapping, then the
\* mapping is saved
store_secure_data(storage, file, cipher, key, data) ==
  LET updated == DictSet(storage, key, data)
  IN {[ok |-> s.ok, secure_storage |-> updated, secure_storage_file |-> s.file]
      : s \in _save_secure_storage(updated, file, cipher)}

\* get_secure_data(key, default=None)
get_secure_data(storage, key) == DictGet(storage, key, PyNone)

\* delete_secure_data(key)
delete_secure_data(storage, file, cipher, key) ==
  IF DictHas(storage, key)
  THEN {[ok |-> s.ok, secure_storage |-> DictDel(storage, key), secure_storage_file |-> s.file]
        : s \in _save_secure_storage(DictDel(storage, key), file, cipher)}
  ELSE {[ok |-> TRUE, secure_storage |-> storage, secure_storage_file |-> file]}

\* the keys and values the callers pass
SecureKeys == {StrKey("1"), IntKey("1")}
SecureValues ==
  {PyStr("s3cret"), PyTuple(<<PyInt("1"), PyInt("2")>>),
   PyDict(<<Item(IntKey("1"), PyStr("x"))>>), PyObject}

\* SecurityManager.__init__ on a data directory
Construct(kf, sf, made) ==
  UNION {{[cipher_suite |-> e.cipher_suite, key_file |-> e.key_file,
           keys_made |-> e.keys_made, secure_storage |-> l.secure_storage,
           secure_storage_file |-> l.secure_storage_file]
          : l \in _load_secure_storage(sf, e.cipher_suite)}
         : e \in _initialize_encryption(kf, made)}

dispatch_vars ==
  <<system_handler, system_analyzer, device_monitor, security_manager, openai_enabled,
    fs, privacy_settings, privacy_file, running, last>>

InitSecure ==
  /\ system_handler = TRUE
  /\ system_analyzer = TRUE
  /\ device_monitor = TRUE
  /\ security_manager = TRUE
  /\ openai_enabled = FALSE
  /\ fs = InitFs
  /\ privacy_settings = default_settings
  /\ privacy_file = FileOf(default_settings)
  /\ running = TRUE
  /\ last = NoDispatch
  /\ NoSession
  /\ restarts = 0
  /\ sec = NoSecureCall
  /\ \E c \in Construct(NoFile(0), NoFile(Encrypt(0, <<>>)), 0) :
       /\ cipher_suite = c.cipher_suite
       /\ key_file = c.key_file
       /\ keys_made = c.keys_made
       /\ secure_storage = c.secure_storage
       /\ secure_storage_file = c.secure_storage_file

\* a call of the secure storage, as `sec' keeps it: the value passed or
\* returned, the status returned, and the run of the process it was made in
SecureCall(op, key, value, ok) ==
  [op |-> op, key |-> key, value |-> value, ok |-> ok, at |-> restarts]

StoreSecureData(key, data) ==
  /\ \E r \in store_secure_data(secure_storage, secure_storage_file, cipher_suite, key, data) :
       /\ secure_storage' = r.secure_storage
       /\ secure_storage_file' = r.secure_storage_file
       /\ sec' = SecureCall("store", key, data, r.ok)
  /\ UNCHANGED <<dispatch_vars, key_file, cipher_suite, keys_made, restarts, session_vars>>

GetSecureData(key) ==
  /\ sec' = SecureCall("get", key, get_secure_data(secure_storage, key), TRUE)
  /\ UNCHANGED <<dispatch_vars, security_vars, session_vars>>

DeleteSecureData(key) ==
  /\ \E r \in delete_secure_data(secure_storage, secure_storage_file, cipher_suite, key) :
       /\ secure_storage' = r.secure_storage
       /\ secure_storage_file' = r.secure_storage_file
       /\ sec' = SecureCall("delete", key, PyNone, r.ok)
  /\ UNCHANGED <<dispatch_vars, key_file, cipher_suite, keys_made, restarts, session_vars>>

\* the process ends and is started again on the same data directory
Restart ==
  /\ restarts < MaxRestarts
  /\ restarts' = restarts + 1
  /\ \E c \in Construct(key_file, secure_storage_file, keys_made) :
       /\ cipher_suite' = c.cipher_suite
       /\ key_file' = c.key_file
       /\ keys_made' = c.keys_made
       /\ secure_storage' = c.secure_storage
       /\ secure_storage_file' = c.secure_storage_file
  /\ UNCHANGED <<dispatch_vars, sec, session_vars>>

NextSecure ==
  \/ \E key \in SecureKeys, data \in SecureValues : StoreSecureData(key, data)
  \/ \E key \in SecureKeys : GetSecureData(key)
  \/ \E key \in SecureKeys : DeleteSecureData(key)
  \/ Restart

SpecSecure == InitSecure /\ [][NextSecure]_vars

(***************************************************************************)
(* Properties of the dispatcher (specification Spec)                       *)
(***************************************************************************)
Handled == last.op = "process_command"
Normalised(input) == Strip(Lower(input))

\* the rules whose pattern matches each phrase once lower-cased and trimmed
Matching ==
  [input \in Phrases |->
     {k \in 1..Len(commands) : ReMatch(commands[k].pattern, Normalised(input)) # <<>>}]

\* C1, as stated: for every non-empty input string process_command selects
\* exactly one rule and invokes exactly one handler.
C1_EveryNonEmptyInputHandled ==
  (Handled /\ last.input # "") =>
    (last.rule \in 1..Len(commands) /\ Len(last.called) = 1)

\* C1, amended: an input that is non-empty once lower-cased and trimmed
\* selects exactly one rule and makes exactly one handler call, the one
\* bound to that rule; an input that trims to nothing selects no rule and
\* calls no handler.
C1_EveryNonBlankInputHandled ==
  Handled =>
    IF Normalised(last.input) # ""
    THEN /\ last.rule \in 1..Len(commands)
         /\ last.called = <<commands[last.rule].handler>>
    ELSE last.rule = 0 /\ last.called = <<>>

\* a phrase only the catch-all rule matches has been handled by its handler
C1_Witness ==
  /\ Handled
  /\ Normalised(last.input) # ""
  /\ Matching[last.input] = {Len(commands)}
  /\ last.entered = <<"_default_response">>

\* C2: given the empty string or a whitespace-only string, no handler is
\* invoked and exactly one "didn't catch that" utterance is emitted.
C2_BlankInputNotCaught ==
  (Handled /\ Strip(last.input) = "") =>
    (last.called = <<>> /\ last.utterances = <<DidNotCatch>>)

\* C3, as stated: whenever the invoked handler fails, for any reason, the
\* generic error utterance is emitted and process_command returns normally.
C3_EveryFailureCaught ==
  (Handled /\ last.raised # "none") =>
    /\ last.outcome = "returned"
    /\ last.utterances # <<>>
    /\ last.utterances[Len(last.utterances)] = GenericError

\* C3, amended: when the handler call raises an exception derived from
\* Exception (the TypeError of the call itself included), the generic error
\* utterance is the last thing spoken, process_command returns normally and
\* no second handler is called; the SystemExit of the shutdown handler is
\* not caught: it reaches the caller and no error utterance is spoken.
C3_ExceptionsCaught ==
  Handled =>
    /\ last.raised \in {"TypeError", "Exception"} =>
         /\ last.outcome = "returned"
         /\ last.utterances # <<>>
         /\ last.utterances[Len(last.utterances)] = GenericError
         /\ Len(last.called) = 1
    /\ last.raised = "SystemExit" =>
         /\ last.outcome = "SystemExit"
         /\ ~SeqContains(last.utterances, GenericError)
         /\ ~running
    /\ last.raised = "none" => ~SeqContains(last.utterances, GenericError)

\* a handler call has failed and the dispatcher has answered for it
C3_Witness ==
  /\ Handled
  /\ last.raised = "TypeError"
  /\ last.utterances = <<GenericError>>
  /\ running

\* C4: "what time is it" invokes the time handler, which speaks the current
\* time as a 12-hour clock string; the dispatch does not end in the generic
\* error utterance.
C4_TimeSpoken ==
  (Handled /\ last.input = "what time is it") =>
    /\ last.entered = <<"_get_time_date">>
    /\ \E now \in Clock : last.utterances = <<"The current time is " \o StrfTime12(now)>>
    /\ ~SeqContains(last.utterances, GenericError)

\* C5: "run command rm -rf /" makes the denylist check of the
\* command-execution handler fire: the rejection is spoken and the system
\* collaborator is not invoked.
C5_DangerousCommandRejected ==
  (Handled /\ last.input = "run command rm -rf /" /\ system_handler) =>
    /\ last.entered = <<"_execute_command">>
    /\ last.utterances = <<HarmfulCommand>>
    /\ last.calls = <<>>

\* C6: "enable network data collection" resolves "network" to
\* allow_network_access and leaves the privacy store, in memory and in its
\* file, with that key set to true.
C6_NetworkEnabled ==
  (Handled /\ last.input = "enable network data collection" /\ security_manager) =>
    /\ last.entered = <<"_handle_enable_privacy_setting">>
    /\ \E k \in 1..Len(last.calls) :
         /\ last.calls[k].fn = "update_privacy_settings"
         /\ last.calls[k].arg = "allow_network_access"
    /\ privacy_settings.allow_network_access
    /\ privacy_file.exists /\ privacy_file.data.allow_network_access

\* C7: the handler process_command calls is the one bound to the earliest
\* rule, in table order, whose pattern matches the lower-cased trimmed
\* input; no handler of a later matching rule is called, also when the
\* call fails.
C7_FirstMatchWins ==
  Handled =>
    IF last.input = "" \/ Matching[last.input] = {}
    THEN last.called = <<>>
    ELSE /\ last.rule \in Matching[last.input]
         /\ \A k \in Matching[last.input] : last.rule <= k
         /\ last.called = <<commands[last.rule].handler>>

\* a phrase several rules match has been handled, and the call failed
C7_Witness ==
  /\ Handled
  /\ Cardinality(Matching[last.input]) >= 2
  /\ last.rule = 1
  /\ last.raised = "TypeError"
  /\ last.called = <<"_get_time_date">>

\* C8: with the filesystem collaborator there to report, "create a folder
\* called notes" produces exactly two utterances, the intent to create and
\* then the confirmation when create_directory reported success or the
\* explanation when it reported failure, and create_directory is called
\* exactly once, after the first utterance and before the second.
C8_CreateFolderUtterances ==
  (Handled /\ last.input = "create a folder called notes" /\ system_handler) =>
    /\ Len(last.calls) = 1
    /\ last.calls[1].target = "system_handler"
    /\ last.calls[1].fn = "create_directory"
    /\ last.calls[1].arg = "notes"
    /\ last.calls[1].said = 1
    /\ last.calls[1].result \in {"True", "False"}
    /\ last.utterances =
         <<"Creating directory notes.",
           IF last.calls[1].result = "True"
           THEN "Directory notes has been created."
           ELSE "I couldn't create the directory notes. Please check the path and try again.">>

\* the folder has been asked for and create_directory reported a failure
C8_Witness ==
  /\ Handled
  /\ last.input = "create a folder called notes"
  /\ Len(last.calls) = 1
  /\ last.calls[1].result = "False"
  /\ Len(last.utterances) = 2

\* C9: the delete-file, delete-directory and clear-all-data handlers make
\* their destructive call (delete_item, clear_all_data) only after an
\* affirmative confirmation has been received from the user.
C9_DestructiveCallsConfirmed ==
  Handled =>
    \A k \in 1..Len(last.calls) :
      last.calls[k].fn \in {"delete_item", "clear_all_data"} =>
        \E j \in 1..(k - 1) :
          last.calls[j].target = "listener" /\ last.calls[j].result = "yes"

(***************************************************************************)
(* Properties of the secure storage (specification SpecSecure)             *)
(***************************************************************************)
\* C10: a value stored with store_secure_data(key, v) is returned equal by
\* get_secure_data(key), in the same process and after the process has been
\* restarted and the storage reloaded from its backing file, for every key
\* and JSON-serialisable value.
C10_StoredValueReadBack ==
  (sec.op = "store" /\ sec.ok) =>
    get_secure_data(secure_storage, sec.key) = sec.value

(***************************************************************************)
(* The handlers called on their own, with the arguments their signatures   *)
(* take: command_text, then a keyword for the named capture.               *)
(***************************************************************************)
Kw(name, value) == {[name |-> name, val |-> Some(value)]}

HandlerCall(handler, command_text, kwargs) ==
  [handler |-> handler, command_text |-> command_text, args |-> <<>>, kwargs |-> kwargs]

\* privacy handlers: known and unknown setting names, passed or left to
\* the handler's own search of the command text
PrivacyCalls ==
  {HandlerCall("_handle_enable_privacy_setting", "enable network data collection",
               Kw("setting", "network")),
   HandlerCall("_handle_enable_privacy_setting", "enable foo data collection",
               Kw("setting", "foo")),
   HandlerCall("_handle_enable_privacy_setting", "turn on network access tracking", {}),
   HandlerCall("_handle_enable_privacy_setting", "enable everything", {}),
   HandlerCall("_handle_disable_privacy_setting", "disable network tracking",
               Kw("setting", "network")),
   HandlerCall("_handle_disable_privacy_setting", "disable  File  monitoring",
               Kw("setting", " File ")),
   HandlerCall("_handle_disable_privacy_setting", "turn off bar monitoring", {}),
   HandlerCall("_handle_add_sensitive_directory", "add sensitive directory secret",
               Kw("directory", "secret")),
   HandlerCall("_handle_clear_data", "clear all data", {}),
   HandlerCall("_handle_show_privacy_settings", "show privacy settings", {})}

\* the command-execution handler: harmless commands and commands holding a
\* denylisted substring, in either case of letters
ExecuteCalls ==
  {HandlerCall("_execute_command", "execute command " \o c, Kw("command", c))
   : c \in {"dir", " ipconfig ", "RM -RF /tmp", "deltree c:", "echo information",
            "del /F /q x", "DROP DATABASE jarvis", "rm -r -f /"}}

\* handlers that change the filesystem, called without the path they need
FileCalls ==
  {HandlerCall(h, "", {})
   : h \in {"_create_directory", "_create_file", "_delete_item", "_delete_directory",
            "_update_directory", "_insert_into_directory"}}

HandlerCalls == PrivacyCalls \cup ExecuteCalls \cup FileCalls

\* what a direct call of a handler did: nothing stands between the handler
\* and its caller
Invoked(call, r) ==
  [op |-> "handler", input |-> call.command_text, text |-> call.command_text, rule |-> 0,
   called |-> <<call.handler>>, entered |-> <<call.handler>>,
   utterances |-> r.say, calls |-> r.calls, raised |-> r.raised,
   outcome |-> IF r.raised = "none" THEN "returned" ELSE r.raised]

InitHandlers ==
  /\ system_handler \in BOOLEAN
  /\ system_analyzer = TRUE
  /\ device_monitor = TRUE
  /\ security_manager \in BOOLEAN
  /\ openai_enabled = FALSE
  /\ fs = InitFs
  /\ InitSecurity
  /\ key_file = FileOf(1)
  /\ running = TRUE
  /\ last = NoDispatch
  /\ NoSession

InvokeHandler(call) ==
  /\ running
  /\ BindOk(call.handler, call.args, call.kwargs)
  /\ \E r \in HandlerBody(call.handler, call.command_text, call.args, call.kwargs) :
       /\ last' = Invoked(call, r)
       /\ fs' = r.fs
       /\ privacy_settings' = r.privacy_settings
       /\ privacy_file' = r.privacy_file
       /\ secure_storage' = r.secure_storage
       /\ secure_storage_file' = r.secure_storage_file
       /\ running' = (r.raised = "none")
  /\ UNCHANGED <<collaborators, key_file, cipher_suite, keys_made, restarts, sec, session_vars>>

NextHandlers == \E call \in HandlerCalls : InvokeHandler(call)

SpecHandlers == InitHandlers /\ [][NextHandlers]_vars

(***************************************************************************)
(* C11: setting names the lookup table does not hold                       *)
(***************************************************************************)
ToggleHandlers == {"_handle_enable_privacy_setting", "_handle_disable_privacy_setting"}

\* the name a toggle call works with: the keyword it was passed, else the
\* capture of its own search of the command text
GivenSetting(call) ==
  IF Truthy(KwGet(call.kwargs, "setting")) THEN KwGet(call.kwargs, "setting")
  ELSE SearchGroup1(TogglePattern(call.handler = "_handle_enable_privacy_setting"),
                    call.command_text)

\* the toggle calls whose name, trimmed and lower-cased, is not a key of
\* setting_map
UnknownSettingCalls ==
  {call \in HandlerCalls :
     /\ call.handler \in ToggleHandlers
     /\ GivenSetting(call).some
     /\ \A e \in setting_map : e[1] # Lower(Strip(GivenSetting(call).v))}

ShellCalls(l) ==
  {k \in 1..Len(l.calls) : l.calls[k].fn = "execute_command"}

\* the command a call of _execute_command was given
GivenCommand(call) == KwGet(call.kwargs, "command").v

\* C12: whenever _execute_command has been given a command that holds one
\* of "rm -rf", "deltree", "format", "del /f", "drop database" in any case
\* of letters, SystemHandler.execute_command has not been called and, with
\* a system handler present, the only utterance is the rejection; and
\* whenever execute_command has been called, the command it was passed is
\* the command given, trimmed, and holds none of the five substrings.
C12_DenylistGuardsShell ==
  \A call \in ExecuteCalls :
    (last.op = "handler" /\ last.called = <<call.handler>>
     /\ last.text = call.command_text)
    => /\ (\E k \in 1..Len(dangerous_commands) :
             Contains(Lower(GivenCommand(call)), dangerous_commands[k]))
          => /\ ShellCalls(last) = {}
             /\ system_handler => last.utterances = <<HarmfulCommand>>
       /\ \A k \in ShellCalls(last) :
            /\ last.calls[k].arg = Strip(GivenCommand(call))
            /\ \A j \in 1..Len(dangerous_commands) :
                 ~Contains(Lower(last.calls[k].arg), dangerous_commands[j])

\* an upper-case "DROP DATABASE" has been rejected without a shell call
C12_Witness ==
  /\ system_handler
  /\ last.op = "handler"
  /\ last.called = <<"_execute_command">>
  /\ last.text = "execute command DROP DATABASE jarvis"
  /\ last.utterances = <<HarmfulCommand>>
  /\ last.calls = <<>>

(***************************************************************************)
(* C13: filesystem handlers reached without a path                         *)
(***************************************************************************)
\* the handlers that change the filesystem, with the capture each one needs
PathParameter ==
  [h \in {"_create_directory", "_create_directory_prompt", "_delete_directory",
          "_update_directory", "_insert_into_directory"} |-> "dir_path"] @@
  [h \in {"_create_file"} |-> "file_path"] @@
  [h \in {"_delete_item"} |-> "path"]

FilesystemCalls(l) ==
  {k \in 1..Len(l.calls) : l.calls[k].target \in {"system_handler", "os"}}

\* C13, as stated: when process_command enters a handler that changes the
\* filesystem and the rule captured no path for it, the handler only asks:
\* it makes no call to the filesystem collaborator.
C13_MissingPathOnlyAsks ==
  (/\ Handled
   /\ last.entered # <<>>
   /\ last.entered[1] \in DOMAIN PathParameter
   /\ ~Truthy(KwGet(Route[last.input].kwargs, PathParameter[last.entered[1]])))
  => FilesystemCalls(last) = {}

(***************************************************************************)
(* C14: the privacy settings in memory and in the file                     *)
(***************************************************************************)
\* C14, as stated: after any sequence of calls of the handlers that change
\* privacy settings (enable, disable, add sensitive directory, clear data),
\* with each write of the file succeeding or failing, the mapping held in
\* memory equals the mapping stored in the privacy settings file.
C14_MemoryEqualsFile ==
  security_manager => (privacy_file.exists /\ privacy_file.data = privacy_settings)

(***************************************************************************)
(* C15: the order of the knowledge sources                                 *)
(***************************************************************************)
LlmCalls(l) == {k \in 1..Len(l.calls) : l.calls[k].target = "openai_client"}
WikiCalls(l) == {k \in 1..Len(l.calls) : l.calls[k].target = "wikipedia"}
LlmAnswered(l) == \E k \in LlmCalls(l) : l.calls[k].result = "ok"
WikiAnswered(l) ==
  \E k \in WikiCalls(l) : l.calls[k].result \in {"<summary>", "DisambiguationError-then-summary"}

\* the last dispatch entered one of the two knowledge handlers, the
\* catch-all one with a text none of its system-operation branches takes
KnowledgeDispatch ==
  /\ Handled
  /\ \/ last.entered = <<"_answer_question">>
     \/ /\ last.entered = <<"_default_response">>
        /\ \A k \in 1..Len(system_operation_keywords) :
             ~Contains(last.text, system_operation_keywords[k])

CannedApologies == DefaultResponses \cup {AnswerFallback}

\* C15, as stated: both handlers try the language model first; when it is
\* absent or fails they try Wikipedia; only when that fails too do they
\* speak one of the canned apologies.
C15_LlmThenWikipediaThenCanned ==
  KnowledgeDispatch =>
    /\ openai_enabled <=> LlmCalls(last) # {}
    /\ ~LlmAnswered(last) <=> WikiCalls(last) # {}
    /\ (\E k \in 1..Len(last.utterances) : last.utterances[k] \in CannedApologies)
       <=> (~LlmAnswered(last) /\ ~WikiAnswered(last))

\* C15, amended: _answer_question calls the language model first when it is
\* enabled; it calls Wikipedia only when the model is absent or raised, and
\* only for a text holding "<what|who|where|when> <is|are|was|were> ";
\* when neither gave an answer its last utterance is the one fixed apology.
\* _default_response, for a text without a system-operation keyword, calls
\* the language model first when it is enabled and never calls Wikipedia;
\* when the model is absent or raised it speaks exactly one of its five
\* canned replies.
C15_KnowledgeFallbackOrder ==
  KnowledgeDispatch =>
    /\ openai_enabled <=> LlmCalls(last) = {1}
    /\ LlmAnswered(last) =>
         (Len(last.calls) = 1 /\ Len(last.utterances) <= 1
          /\ \A k \in 1..Len(last.utterances) : last.utterances[k] \notin CannedApologies)
    /\ IF last.entered = <<"_answer_question">>
       THEN /\ WikiCalls(last) # {} <=>
                 (~LlmAnswered(last) /\ ReSearch(SubjectPattern, last.text))
            /\ \A k \in WikiCalls(last) : k = Len(last.calls)
            /\ ~LlmAnswered(last) =>
                 last.utterances[Len(last.utterances)] =
                   IF WikiAnswered(last) THEN "<summary>" ELSE AnswerFallback
       ELSE /\ WikiCalls(last) = {}
            /\ ~LlmAnswered(last) =>
                 (Len(last.utterances) = 1 /\ last.utterances[1] \in DefaultResponses)

\* the language model raised on "who is alan turing", Wikipedia was asked
\* next and failed too, and the fixed apology was spoken last
C15_Witness ==
  /\ Handled
  /\ last.entered = <<"_answer_question">>
  /\ last.input = "who is alan turing"
  /\ Len(last.calls) = 2
  /\ last.calls[1].target = "openai_client" /\ last.calls[1].result = "raise"
  /\ last.calls[2].target = "wikipedia" /\ last.calls[2].result = "PageError"
  /\ last.utterances[Len(last.utterances)] = AnswerFallback

(***************************************************************************)
(* C16: no dispatch ends in silence                                        *)
(***************************************************************************)
\* C16, as stated: every call of process_command, whatever the input, has
\* had at least one utterance rendered by the speaker when it ends.
C16_NeverSilent ==
  Handled => Len(last.utterances) >= 1

(***************************************************************************)
(* SpeechListener: listen and listen_for_wake_word                         *)
(*                                                                         *)
(* One pass through the body of either method opens the microphone, lets   *)
(* the recogniser capture audio, and hands the audio to Google and, when   *)
(* Google cannot be reached, to Sphinx.  A hearing records how each of     *)
(* these went: a transcript as Some(text), an exception by its name.       *)
(***************************************************************************)
MaxAttempts == 3

Transcripts == {"Jarvis what time is it", "hello there", "Jarv come in", "hey you"}
WakeWords == {"jarvis", "Hey Jarvis", "jay"}
\* timeout=None is the default of listen_for_wake_word, timeout=10 of listen
Timeouts == {None, Some("10"), Some("15")}

Hearing(mic, capture, google, sphinx) ==
  [mic |-> mic, capture |-> capture, google |-> google, sphinx |-> sphinx]

\* the ways one pass can go; recognizer.listen raises WaitTimeoutError only
\* when it was given a timeout
Hearings(timeout) ==
  {Hearing("Exception", "none", None, None),
   Hearing("ok", "Exception", None, None)} \cup
  (IF timeout.some THEN {Hearing("ok", "WaitTimeoutError", None, None)} ELSE {}) \cup
  {Hearing("ok", "audio", Some(t), None) : t \in Transcripts} \cup
  {Hearing("ok", "audio", Some("UnknownValueError"), None),
   Hearing("ok", "audio", Some("Exception"), None)} \cup
  {Hearing("ok", "audio", Some("RequestError"), Some(t))
   : t \in Transcripts \cup {"ImportError", "UnknownValueError", "Exception"}}

Exceptions == {"UnknownValueError", "RequestError", "ImportError", "Exception"}
Transcribed(o) == o.some /\ o.v \notin Exceptions

\* str.split(): the words of a text
RECURSIVE Words(_, _)
Words(s, word) ==
  IF s = "" THEN (IF word = "" THEN <<>> ELSE <<word>>)
  ELSE IF Head(s) = " "
       THEN (IF word = "" THEN <<>> ELSE <<word>>) \o Words(Tail(s), "")
       ELSE Words(Tail(s), word \o CharAt(s, 1))

Returned(text) == [pc |-> "returned", result |-> text]
StillListening == [pc |-> "waiting", result |-> None]
Raised == [pc |-> "raised", result |-> None]

\* a listen that lets WaitTimeoutError out
listen_timeout_unhandled(h) ==
  IF h.mic # "ok" THEN Returned(None)
  ELSE IF h.capture = "WaitTimeoutError" THEN Raised
  ELSE IF h.capture # "audio" THEN Returned(None)
  ELSE IF Transcribed(h.google) THEN Returned(Some(Lower(h.google.v)))
  ELSE IF h.google = Some("RequestError") /\ Transcribed(h.sphinx)
       THEN Returned(Some(Lower(h.sphinx.v)))
  ELSE Returned(None)

\* listen(timeout, phrase_time_limit): every exception ends in `return None'
listen(h) ==
  IF h.mic # "ok" THEN Returned(None)
  ELSE IF h.capture # "audio" THEN Returned(None)
  ELSE IF Transcribed(h.google) THEN Returned(Some(Lower(h.google.v)))
  ELSE IF h.google = Some("RequestError") /\ Transcribed(h.sphinx)
       THEN Returned(Some(Lower(h.sphinx.v)))
  ELSE Returned(None)

\* one turn of the `while True' of listen_for_wake_word: it returns only a
\* text that holds the wake word (or its first four letters, or, from
\* Sphinx, one of its words); every exception goes round the loop again
listen_for_wake_word(wake_word, h) ==
  LET wake_word_lower == Lower(wake_word)
      parts == Words(wake_word_lower, "")
  IN IF h.mic # "ok" \/ h.capture # "audio" THEN StillListening
     ELSE IF Transcribed(h.google)
     THEN LET text == Lower(h.google.v)
          IN IF Contains(text, wake_word_lower) THEN Returned(Some(text))
             ELSE IF Len(wake_word_lower) > 3 /\ Contains(text, SubSeq(wake_word_lower, 1, 4))
             THEN Returned(Some(text))
             ELSE StillListening
     ELSE IF h.google = Some("RequestError") /\ Transcribed(h.sphinx)
     THEN LET text == Lower(h.sphinx.v)
          IN IF Contains(text, wake_word_lower)
                \/ \E k \in 1..Len(parts) : Contains(text, parts[k])
             THEN Returned(Some(text))
             ELSE StillListening
     ELSE StillListening

InitListen ==
  /\ system_handler = TRUE
  /\ system_analyzer = TRUE
  /\ device_monitor = TRUE
  /\ security_manager = TRUE
  /\ openai_enabled = FALSE
  /\ fs = InitFs
  /\ InitSecurity
  /\ key_file = FileOf(1)
  /\ running = TRUE
  /\ last = NoDispatch
  /\ NoSession

listen_frame ==
  <<collaborators, fs, security_vars, key_file, cipher_suite, keys_made, restarts, running,
    last, sec, run, resolved, direct>>

\* the caller calls listen(timeout=...)
CallListen(timeout) ==
  /\ listening.pc = "idle"
  /\ timeout.some
  /\ listening' = [NotListening EXCEPT !.call = "listen", !.pc = "waiting",
                                       !.timeout = timeout]
  /\ UNCHANGED listen_frame

\* the caller calls listen_for_wake_word(wake_word, timeout=...)
CallListenForWakeWord(wake_word, timeout) ==
  /\ listening.pc = "idle"
  /\ listening' = [NotListening EXCEPT !.call = "listen_for_wake_word", !.pc = "waiting",
                                       !.wake_word = wake_word, !.timeout = timeout]
  /\ UNCHANGED listen_frame

\* one pass through the body of the method in progress
Hear(h) ==
  /\ listening.pc = "waiting"
  /\ listening.attempts < MaxAttempts
  /\ LET r == IF listening.call = "listen" THEN listen(h)
              ELSE listen_for_wake_word(listening.wake_word, h)
     IN listening' = [listening EXCEPT !.pc = r.pc, !.result = r.result, !.heard = h,
                                       !.attempts = @ + 1]
  /\ UNCHANGED listen_frame

\* the caller has the value and is free to call again
TakeResult ==
  /\ listening.pc = "returned"
  /\ listening' = NotListening
  /\ UNCHANGED listen_frame

NextListen ==
  \/ \E timeout \in Timeouts : CallListen(timeout)
  \/ \E wake_word \in WakeWords, timeout \in Timeouts : CallListenForWakeWord(wake_word, timeout)
  \/ \E h \in Hearings(listening.timeout) : Hear(h)
  \/ TakeResult

SpecListen == InitListen /\ [][NextListen]_vars

(***************************************************************************)
(* C17: what the listening calls do when the timeout elapses               *)
(***************************************************************************)
TimedOut == listening.heard.capture = "WaitTimeoutError"

\* C17, as stated: once the caller's timeout has elapsed without recognised
\* speech, listen and listen_for_wake_word have both returned, with the
\* absence value; neither has raised and neither is still blocking.
C17_TimeoutReturnsAbsence ==
  TimedOut => (listening.pc = "returned" /\ listening.result = None)

\* C17, amended: listen returns after its one attempt, with the absence
\* value when the timeout elapsed (or on any error), and never raises;
\* listen_for_wake_word never raises either, but an elapsed timeout does
\* not make it return: it goes on listening, and it returns only a
\* transcript that holds the wake word, its first four letters or (from
\* Sphinx) one of its words, never the absence value.
C17_ListenReturnsWakeWordWaits ==
  /\ listening.pc # "raised"
  /\ (listening.call = "listen" /\ listening.attempts > 0) =>
       /\ listening.pc = "returned" /\ listening.attempts = 1
       /\ TimedOut => listening.result = None
  /\ (listening.call = "listen_for_wake_word" /\ TimedOut) =>
       (listening.pc = "waiting" /\ listening.result = None)
  /\ (listening.call = "listen_for_wake_word" /\ listening.pc = "returned") =>
       /\ listening.result.some
       /\ \/ /\ Len(listening.wake_word) > 3
             /\ Contains(listening.result.v, SubSeq(Lower(listening.wake_word), 1, 4))
          \/ \E k \in 1..Len(Words(Lower(listening.wake_word), "")) :
               Contains(listening.result.v, Words(Lower(listening.wake_word), "")[k])

\* listen has returned the absence value after its timeout elapsed, and
\* so has not raised
C17_Witness ==
  /\ listening.call = "listen"
  /\ listening.timeout = Some("15")
  /\ TimedOut
  /\ listening.pc = "returned"
  /\ listening.result = None

(***************************************************************************)
(* Jarvis.run: the wake word, the command, the dispatch, and the ways out  *)
(***************************************************************************)
wake_word == "jarvis"

\* what listen_for_wake_word hands back: lower-cased transcripts holding
\* the wake word or its first four letters
WakeTexts ==
  {"jarvis", "jarvis exit", "jarvis hello", "hey jarvis what time is it", "thanks jarvis",
   "jarv hello"}
\* what listen(timeout=15, phrase_time_limit=15) hands back
HeardCommands ==
  {None, Some("exit"), Some("quit"), Some("shutdown"), Some("bye"), Some("goodbye"),
   Some("hello"), Some("thanks"), Some("what time is it")}

\* Jarvis.extract_command(text, wake_word)
extract_command(text, word) ==
  IF text = "" THEN None
  ELSE LET t == Lower(text)
           w == Lower(word)
       IN IF Contains(t, w)
          THEN IF Strip(AfterFirst(t, w)) # "" THEN Some(Strip(AfterFirst(t, w))) ELSE None
          ELSE Some(t)

Goodbye == "Goodbye, sir."
NeedRestart == "I encountered an unexpected error and need to restart."
NotCaught ==
  "I didn't catch that. Please try speaking clearly and a bit louder, or try direct mode with the --direct flag."

\* handlers of run that end the process without a word
run_except_silent(r, exc) ==
  IF exc = "KeyboardInterrupt"
  THEN [r EXCEPT !.pc = "exited", !.raised = exc, !.exit = "0"]
  ELSE IF exc = "SystemExit"
  THEN [r EXCEPT !.pc = "exited", !.raised = exc, !.exit = "0"]
  ELSE [r EXCEPT !.pc = "exited", !.raised = "Exception", !.exit = "1"]

\* an exception leaving the `while True' of run: `except KeyboardInterrupt'
\* and `except Exception' speak and call sys.exit; the SystemExit of a
\* handler's sys.exit(0) meets neither and ends the process as it is
run_except(r, exc) ==
  IF exc = "KeyboardInterrupt"
  THEN [r EXCEPT !.pc = "exited", !.raised = exc, !.exit = "0", !.said = Speak(@, Goodbye)]
  ELSE IF exc = "SystemExit"
  THEN [r EXCEPT !.pc = "exited", !.raised = exc, !.exit = "0"]
  ELSE [r EXCEPT !.pc = "exited", !.raised = "Exception", !.exit = "1",
                 !.said = Speak(@, NeedRestart)]

InitRun ==
  /\ system_handler = TRUE
  /\ system_analyzer = TRUE
  /\ device_monitor = TRUE
  /\ security_manager \in BOOLEAN
  /\ openai_enabled \in BOOLEAN
  /\ fs = InitFs
  /\ InitSecurity
  /\ key_file = FileOf(1)
  /\ running = TRUE
  /\ last = NoDispatch
  /\ NoSession

run_frame ==
  <<collaborators, fs, security_vars, key_file, cipher_suite, keys_made, restarts, last, sec,
    listening, resolved, direct>>

InLoop == run.pc \in {"wake", "command", "dispatch", "sleep"}

\* self.startup_sequence(), then into the loop
Startup ==
  /\ run.pc = "none"
  /\ run' = [run EXCEPT !.pc = "wake",
                        !.said = <<"Initializing JARVIS system. All systems are now online.",
                                   "At your service, sir. Say my name followed by a command.">>]
  /\ UNCHANGED <<run_frame, running>>

\* listen_for_wake_word returned: a command came with the wake word, or
\* the activation sound is played (a failure of the beep is an exception in
\* the loop itself) and a command is listened for
WakeWordHeard(wake_text) ==
  /\ run.pc = "wake"
  /\ LET command == extract_command(wake_text, wake_word)
     IN IF Truthy(command)
        THEN run' = [run EXCEPT !.pc = "dispatch", !.command = command, !.said = <<>>]
                    /\ UNCHANGED running
        ELSE \/ run' = [run EXCEPT !.pc = "command", !.command = None, !.said = <<>>]
                /\ UNCHANGED running
             \/ run' = run_except([run EXCEPT !.command = None, !.said = <<>>], "Exception")
                /\ running' = FALSE
  /\ UNCHANGED run_frame

\* listen returned a command or the absence value
CommandHeard(command) ==
  /\ run.pc = "command"
  /\ IF Truthy(command)
     THEN run' = [run EXCEPT !.pc = "dispatch", !.command = command]
     ELSE run' = [run EXCEPT !.pc = "sleep", !.said = Speak(@, NotCaught)]
  /\ UNCHANGED <<run_frame, running>>

\* self.processor.process_command(command): whatever leaves it leaves the
\* loop too
Dispatch ==
  /\ run.pc = "dispatch"
  /\ \E d \in process_command(run.command.v) :
       /\ last' = [f \in DOMAIN NoDispatch |-> d[f]]
       /\ fs' = d.fs
       /\ privacy_settings' = d.privacy_settings
       /\ privacy_file' = d.privacy_file
       /\ secure_storage' = d.secure_storage
       /\ secure_storage_file' = d.secure_storage_file
       /\ run' = IF d.outcome = "returned" THEN [run EXCEPT !.pc = "sleep"]
                 ELSE run_except(run, d.outcome)
       /\ running' = (d.outcome = "returned")
  /\ UNCHANGED <<collaborators, key_file, cipher_suite, keys_made, restarts, sec, listening,
                 resolved, direct>>

\* time.sleep(0.1), and round again
Sleep ==
  /\ run.pc = "sleep"
  /\ run' = [run EXCEPT !.pc = "wake", !.command = None]
  /\ UNCHANGED <<run_frame, running>>

\* Ctrl-C while the loop is listening, dispatching or sleeping
Interrupt ==
  /\ InLoop
  /\ run' = run_except(run, "KeyboardInterrupt")
  /\ running' = FALSE
  /\ UNCHANGED run_frame

NextRun ==
  \/ Startup
  \/ \E wake_text \in WakeTexts : WakeWordHeard(wake_text)
  \/ \E command \in HeardCommands : CommandHeard(command)
  \/ Dispatch
  \/ Sleep
  \/ Interrupt

SpecRun == InitRun /\ [][NextRun]_vars

(***************************************************************************)
(* C18: how the main loop ends                                             *)
(***************************************************************************)
LastSaid(q) == IF q = <<>> THEN "" ELSE q[Len(q)]

\* C18, as stated: the loop of run ends only through an interrupt or an
\* error raised in the loop itself, with a final utterance of run spoken
\* before the exit; nothing a dispatched handler does ends it.
C18_OnlyInterruptOrErrorEnds ==
  run.pc = "exited" =>
    /\ run.raised \in {"KeyboardInterrupt", "Exception"}
    /\ LastSaid(run.said) \in {Goodbye, NeedRestart}

\* C18, amended: the loop of run ends in three ways only: an interrupt
\* (run speaks "Goodbye, sir." and exits with status 0), an error raised
\* in the loop itself (run speaks the need-to-restart utterance and exits
\* with status 1), or the sys.exit(0) of the shutdown handler, whose
\* SystemExit neither process_command nor run catches (the handler has
\* spoken "Shutting down. Goodbye, sir.", run speaks nothing more, status
\* 0).  No other handler ends the loop: after any other dispatch the loop
\* sleeps and listens again.
C18_ThreeWaysOut ==
  /\ run.pc = "exited" =>
       \/ run.raised = "KeyboardInterrupt" /\ run.exit = "0" /\ LastSaid(run.said) = Goodbye
       \/ run.raised = "Exception" /\ run.exit = "1" /\ LastSaid(run.said) = NeedRestart
       \/ /\ run.raised = "SystemExit" /\ run.exit = "0"
          /\ last.entered = <<"_shutdown">>
          /\ last.utterances = <<"Shutting down. Goodbye, sir.">>
          /\ run.said = <<>>
  /\ (run.pc = "sleep" /\ Truthy(run.command)) =>
       (Handled /\ last.input = run.command.v /\ last.called # <<"_shutdown">>
        /\ last.outcome = "returned")
  /\ (Handled /\ last.called # <<"_shutdown">>) => run.raised # "SystemExit"

\* the loop was interrupted after a dispatch whose handler call had raised
\* a TypeError: the dispatch did not end the loop, the interrupt did, with
\* the farewell
C18_Witness ==
  /\ run.pc = "exited"
  /\ run.raised = "KeyboardInterrupt"
  /\ LastSaid(run.said) = Goodbye
  /\ Handled /\ last.raised = "TypeError"

(***************************************************************************)
(* SystemHandler._resolve_path called on its own                           *)
(***************************************************************************)
PathPrefixes ==
  {"", "~", "~/", "desktop", "Desktop/", "DESKTOP\\", "documents", "Documents/",
   "downloads/", "Downloads", "home/", "Home", "/", "/tmp/", "./", "docs/", "desk"}
PathSuffixes == {"", "notes", "x/y", "/a", "..", "s.txt", "notes/", "x", "2"}

\* the path strings handed to _resolve_path
Paths == {a \o b : a \in PathPrefixes, b \in PathSuffixes}

InitResolve ==
  /\ system_handler = TRUE
  /\ system_analyzer = TRUE
  /\ device_monitor = TRUE
  /\ security_manager = TRUE
  /\ openai_enabled = FALSE
  /\ fs = InitFs
  /\ InitSecurity
  /\ key_file = FileOf(1)
  /\ running = TRUE
  /\ last = NoDispatch
  /\ NoSession

ResolvePath(path_str) ==
  /\ resolved' = [path |-> path_str, result |-> _resolve_path(path_str)]
  /\ UNCHANGED <<collaborators, fs, security_vars, key_file, cipher_suite, keys_made,
                 restarts, running, last, sec, listening, run, direct>>

NextResolve == \E path_str \in Paths : ResolvePath(path_str)

SpecResolve == InitResolve /\ [][NextResolve]_vars

(***************************************************************************)
(* C19: the path resolution policy                                         *)
(***************************************************************************)
RootNames ==
  <<<<"home", user_home>>, <<"desktop", desktop>>, <<"documents", documents>>,
    <<"downloads", downloads>>>>

NamedRoots(path_str) ==
  {k \in 1..Len(RootNames) : StartsWith(Lower(path_str), RootNames[k][1])}

\* the policy of the claim: '~' gives way to the home directory; a root
\* name in front, in any case of letters, gives that root joined with what
\* follows the name and its separator; anything else stays as it is when
\* absolute and is joined to the working directory otherwise
ResolvePolicy(path_str) ==
  IF StartsWith(path_str, "~") THEN PurePath(user_home \o Slice(path_str, 1))
  ELSE IF NamedRoots(path_str) # {}
  THEN LET k == CHOOSE k \in NamedRoots(path_str) : TRUE
       IN PathJoin(RootNames[k][2], LStripSeps(Slice(path_str, Len(RootNames[k][1]))))
  ELSE IF IsAbsolute(path_str) THEN PurePath(path_str)
  ELSE PathJoin(cwd, path_str)

\* C19, as stated: for every input _resolve_path gives what the policy
\* gives, and the result is an absolute path.
C19_ResolveFollowsPolicy ==
  resolved.result # "" =>
    /\ resolved.result = ResolvePolicy(resolved.path)
    /\ IsAbsolute(resolved.result)

(***************************************************************************)
(* C20: the examples of the help text                                      *)
(***************************************************************************)
\* the example phrases of _help_command the claim names, each with the
\* handler of the category it is listed under
HelpExamples ==
  {<<"Run command dir", "_execute_command">>,
   <<"Execute command ipconfig", "_execute_command">>,
   <<"What's today's date?", "_get_time_date">>,
   <<"Who are you?", "_introduce_self">>,
   <<"How are you today?", "_mood_response">>}

\* C20, as stated: process_command routes each example phrase of the help
\* text to the handler of the category it is listed under.
C20_HelpExamplesRouted ==
  \A e \in HelpExamples :
    (Handled /\ last.input = e[1]) => last.called = <<e[2]>>

(***************************************************************************)
(* Jarvis.direct_voice_mode: a `for' over range(num_questions)             *)
(***************************************************************************)
MaxQuestions == 3

\* what listen(timeout=15) hands back in direct mode
DirectCommands ==
  {None, Some("exit"), Some("stop"), Some("hello"), Some("thanks"), Some("bye"),
   Some("what time is it")}
ExitWords == {"exit", "quit", "stop", "goodbye"}

\* a loop that keeps its turn when nothing was heard
heard_in_direct_mode_retry(d, command) ==
  IF ~Truthy(command)
  THEN [d EXCEPT !.listens = @ + 1,
                 !.said = Speak(@, "I didn't catch that. Let's try again. Please speak clearly and a bit louder.")]
  ELSE IF Lower(command.v) \in ExitWords
  THEN [d EXCEPT !.listens = @ + 1, !.pc = "after",
                 !.said = Speak(@, "Exiting direct voice mode.")]
  ELSE [d EXCEPT !.listens = @ + 1, !.pc = "dispatch", !.command = command]

\* one turn of the loop up to the dispatch: listen, then `continue' when
\* nothing was heard, `break' on an exit word, the dispatch otherwise
heard_in_direct_mode(d, command) ==
  IF ~Truthy(command)
  THEN [d EXCEPT !.listens = @ + 1, !.i = @ + 1,
                 !.said = Speak(@, "I didn't catch that. Let's try again. Please speak clearly and a bit louder.")]
  ELSE IF Lower(command.v) \in ExitWords
  THEN [d EXCEPT !.listens = @ + 1, !.pc = "after",
                 !.said = Speak(@, "Exiting direct voice mode.")]
  ELSE [d EXCEPT !.listens = @ + 1, !.pc = "dispatch", !.command = command]

InitDirect ==
  /\ system_handler = TRUE
  /\ system_analyzer = TRUE
  /\ device_monitor = TRUE
  /\ security_manager = TRUE
  /\ openai_enabled = FALSE
  /\ fs = InitFs
  /\ InitSecurity
  /\ key_file = FileOf(1)
  /\ running = TRUE
  /\ last = NoDispatch
  /\ NoSession

direct_frame ==
  <<collaborators, fs, security_vars, key_file, cipher_suite, keys_made, restarts, last, sec,
    listening, run, resolved>>

\* direct_voice_mode(num_questions) is called and speaks its two openers
StartDirect(num_questions) ==
  /\ direct.pc = "none"
  /\ direct' = [NotDirect EXCEPT
                  !.pc = "loop", !.num_questions = num_questions,
                  !.said = <<"Direct voice mode activated. I'll respond to your questions directly without requiring the wake word.",
                             "Please speak clearly after the beep. Say 'exit' to end this mode.">>]
  /\ UNCHANGED <<direct_frame, running>>

\* a turn of the loop: the beep, listen, and what was heard
DirectListen(command) ==
  /\ direct.pc = "loop"
  /\ direct.i < direct.num_questions
  /\ direct' = heard_in_direct_mode(direct, command)
  /\ UNCHANGED <<direct_frame, running>>

\* self.processor.process_command(command), then time.sleep(2); what
\* leaves process_command leaves direct_voice_mode too
DirectDispatch ==
  /\ direct.pc = "dispatch"
  /\ \E d \in process_command(direct.command.v) :
       /\ last' = [f \in DOMAIN NoDispatch |-> d[f]]
       /\ fs' = d.fs
       /\ privacy_settings' = d.privacy_settings
       /\ privacy_file' = d.privacy_file
       /\ secure_storage' = d.secure_storage
       /\ secure_storage_file' = d.secure_storage_file
       /\ direct' = IF d.outcome = "returned"
                    THEN [direct EXCEPT !.pc = "loop", !.i = @ + 1, !.dispatches = @ + 1,
                                        !.command = None]
                    ELSE [direct EXCEPT !.pc = "exited", !.dispatches = @ + 1,
                                        !.raised = d.outcome]
       /\ running' = (d.outcome = "returned")
  /\ UNCHANGED <<collaborators, key_file, cipher_suite, keys_made, restarts, sec, listening,
                 run, resolved>>

\* the range is used up, or the loop was broken out of
DirectFinish ==
  /\ \/ direct.pc = "loop" /\ direct.i >= direct.num_questions
     \/ direct.pc = "after"
  /\ direct' = [direct EXCEPT
                  !.pc = "done",
                  !.said = Speak(@, "Direct voice mode completed. Returning to normal operation.")]
  /\ UNCHANGED <<direct_frame, running>>

NextDirect ==
  \/ \E num_questions \in 0..MaxQuestions : StartDirect(num_questions)
  \/ \E command \in DirectCommands : DirectListen(command)
  \/ DirectDispatch
  \/ DirectFinish

SpecDirect == InitDirect /\ [][NextDirect]_vars

(***************************************************************************)
(* C21: direct mode is bounded                                             *)
(***************************************************************************)
\* C21: in one run of direct_voice_mode(num_questions), whatever listen
\* hands back, listen has been called at most num_questions times and at
\* most num_questions commands have been dispatched (never more than were
\* heard); every turn taken uses up one of the num_questions turns of the
\* loop or leaves the loop, and the run that is over has used no more
\* than num_questions turns.
C21_DirectModeBounded ==
  /\ direct.listens <= direct.num_questions
  /\ direct.dispatches <= direct.num_questions
  /\ direct.dispatches <= direct.listens
  /\ direct.i <= direct.num_questions
  /\ direct.pc = "loop" => direct.listens = direct.i
  /\ direct.pc \in {"after", "dispatch", "exited"} => direct.listens = direct.i + 1
  /\ direct.pc = "done" => direct.listens \in {direct.i, direct.i + 1}

\* a run of three turns is over: nothing heard, then two commands
\* dispatched
C21_Witness ==
  /\ direct.pc = "done"
  /\ direct.num_questions = 3
  /\ direct.listens = 3
  /\ direct.dispatches = 2

(***************************************************************************)
(* C22: handlers whose collaborator is not there                           *)
(***************************************************************************)
\* the collaborators each handler uses
DependsOn(h) ==
  (IF h \in {"_open_application", "_create_directory", "_create_directory_prompt",
             "_create_file", "_delete_item", "_delete_directory", "_update_directory",
             "_insert_into_directory", "_execute_command",
             "_handle_add_sensitive_directory"}
   THEN {"system_handler"} ELSE {}) \cup
  (IF h \in {"_handle_enable_privacy_setting", "_handle_disable_privacy_setting",
             "_handle_show_privacy_settings", "_handle_clear_data",
             "_handle_add_sensitive_directory", "_handle_show_data_access_log",
             "_handle_data_security_status"}
   THEN {"security_manager"} ELSE {}) \cup
  (IF h \in AnalyzerQueries \cup {"_search_files", "_analyze_file_types"}
   THEN {"system_analyzer"} ELSE {}) \cup
  (IF h \in DeviceQueries THEN {"device_monitor"} ELSE {})

Unavailable ==
  (IF system_handler THEN {} ELSE {"system_handler"}) \cup
  (IF security_manager THEN {} ELSE {"security_manager"}) \cup
  (IF system_analyzer THEN {} ELSE {"system_analyzer"}) \cup
  (IF device_monitor THEN {} ELSE {"device_monitor"})

UnavailabilityUtterances ==
  {SystemUnavailable, AnalyzerUnavailable, DeviceUnavailable, SecurityUnavailable}

\* C22, as stated: a handler called while a collaborator it depends on is
\* unavailable speaks exactly one of the fixed unavailability utterances
\* and returns: it calls no collaborator and raises nothing.
C22_UnavailableCollaboratorAnnounced ==
  (last.op = "handler" /\ DependsOn(last.called[1]) \cap Unavailable # {}) =>
    /\ Len(last.utterances) = 1
    /\ last.utterances[1] \in UnavailabilityUtterances
    /\ last.calls = <<>>
    /\ last.raised = "none"

(***************************************************************************)
(* The privacy handlers called one after another, the show-settings        *)
(* handler possibly several times in a row                                 *)
(***************************************************************************)
MaxShows == 2

ShowCall == HandlerCall("_handle_show_privacy_settings", "show privacy settings", {})
SettingCalls == PrivacyCalls \ {ShowCall}

\* the last call, and how many calls of the show handler it ends
ShowInvoked(call, r, shows) == Invoked(call, r) @@ [shows |-> shows]

InitShow ==
  /\ system_handler \in BOOLEAN
  /\ system_analyzer = TRUE
  /\ device_monitor = TRUE
  /\ security_manager \in BOOLEAN
  /\ openai_enabled = FALSE
  /\ fs = InitFs
  /\ InitSecurity
  /\ key_file = FileOf(1)
  /\ running = TRUE
  /\ last = NoDispatch @@ [shows |-> 0]
  /\ NoSession

InvokeShown(call, shows) ==
  /\ running
  /\ BindOk(call.handler, call.args, call.kwargs)
  /\ \E r \in HandlerBody(call.handler, call.command_text, call.args, call.kwargs) :
       /\ last' = ShowInvoked(call, r, shows)
       /\ fs' = r.fs
       /\ privacy_settings' = r.privacy_settings
       /\ privacy_file' = r.privacy_file
       /\ secure_storage' = r.secure_storage
       /\ secure_storage_file' = r.secure_storage_file
       /\ running' = (r.raised = "none")
  /\ UNCHANGED <<collaborators, key_file, cipher_suite, keys_made, restarts, sec, session_vars>>

ShowPrivacySettings ==
  InvokeShown(ShowCall, IF last.shows < MaxShows THEN last.shows + 1 ELSE MaxShows)

ChangeSetting == \E call \in SettingCalls : InvokeShown(call, 0)

NextShow == ShowPrivacySettings \/ ChangeSetting

SpecShow == InitShow /\ [][NextShow]_vars

(***************************************************************************)
(* C23: showing the privacy settings twice                                 *)
(***************************************************************************)
\* C23: a call of the show-privacy-settings handler changes no setting, in
\* memory or in the settings file, and when the call before it was also a
\* call of that handler (so no setting was changed in between) it speaks
\* exactly what that call spoke.
C23_ShowIsRepeatable ==
  [][last'.called = <<"_handle_show_privacy_settings">> =>
       /\ privacy_settings' = privacy_settings
       /\ privacy_file' = privacy_file
       /\ (last.called = <<"_handle_show_privacy_settings">> =>
             last'.utterances = last.utterances)]_vars

\* the settings were changed, then shown twice in a row
C23_Witness ==
  /\ last.called = <<"_handle_show_privacy_settings">>
  /\ last.shows = 2
  /\ privacy_settings # default_settings
  /\ last.utterances = <<PrivacyReport(privacy_settings)>>

(***************************************************************************)
(* C24: what clear_all_data leaves                                         *)
(***************************************************************************)
\* C24, as stated: when the clear-data handler has called clear_all_data
\* and got True, the secure storage is empty and the privacy settings, in
\* memory and in the settings file, are the default settings.
C24_ClearResetsSettings ==
  (/\ last.called = <<"_handle_clear_data">>
   /\ \E k \in 1..Len(last.calls) :
        last.calls[k].fn = "clear_all_data" /\ last.calls[k].result = "True") =>
    /\ secure_storage = <<>>
    /\ privacy_settings = default_settings
    /\ privacy_file = FileOf(default_settings)

(***************************************************************************)
(* C25: the captures of a rule and the parameters of its handler           *)
(***************************************************************************)
\* C25, as stated: whenever process_command has selected a rule, the call
\* handler(text, *groups, **named groups) binds to the handler's parameter
\* list, so the handler is entered and the dispatch does not end in the
\* generic error utterance because of the captures.
C25_CapturesAccepted ==
  (last.op = "process_command" /\ last.rule # 0) =>
    /\ BindOk(commands[last.rule].handler, Route[last.input].args, Route[last.input].kwargs)
    /\ last.entered = <<commands[last.rule].handler>>
    /\ ~(last.raised = "TypeError" /\ last.utterances = <<GenericError>>)

(***************************************************************************)
(* C26: names that only begin like a root name                             *)
(***************************************************************************)
\* a single name, without separator, longer than a root name it begins with
BeginsLikeRoot(path_str) ==
  /\ \A k \in 1..Len(path_str) : CharAt(path_str, k) \notin {"/", "\\"}
  /\ \E root \in {"desktop", "documents", "downloads"} :
       /\ Len(path_str) > Len(root)
       /\ SubSeq(Lower(path_str), 1, Len(root)) = root

\* C26, as stated: such a name resolves to a path whose last component is
\* the whole name, never to the Desktop, Documents or Downloads directory.
C26_ResolveKeepsName ==
  BeginsLikeRoot(resolved.path) =>
    /\ resolved.result \notin {desktop, documents, downloads}
    /\ LET parts == Components(resolved.result, "")
       IN parts # <<>> /\ parts[Len(parts)] = resolved.path

(***************************************************************************)
(* The file handlers called with a path, between changes of the            *)
(* file-access setting                                                     *)
(***************************************************************************)
\* create, insert and delete calls: plain paths, a path that holds a file
\* already, paths under a sensitive directory and of an excluded file type
MutatingCalls ==
  {HandlerCall("_create_file", "create a file called notes.txt", Kw("file_path", "notes.txt")),
   HandlerCall("_create_file", "create a file called documents/api.key",
               Kw("file_path", "documents/api.key")),
   HandlerCall("_create_directory", "create a folder called documents/notes",
               Kw("dir_path", "documents/notes")),
   HandlerCall("_insert_into_directory", "insert into folder old", Kw("dir_path", "old")),
   HandlerCall("_delete_item", "delete file notes.txt", Kw("path", "notes.txt")),
   HandlerCall("_delete_directory", "delete the folder old", Kw("dir_path", "old"))}

FileAccessCalls ==
  {HandlerCall("_handle_disable_privacy_setting", "disable  File  monitoring",
               Kw("setting", " File ")),
   HandlerCall("_handle_enable_privacy_setting", "enable file tracking",
               Kw("setting", "file"))}

InitFiles ==
  /\ system_handler = TRUE
  /\ system_analyzer = TRUE
  /\ device_monitor = TRUE
  /\ security_manager = TRUE
  /\ openai_enabled = FALSE
  /\ fs = InitFs
  /\ InitSecurity
  /\ key_file = FileOf(1)
  /\ running = TRUE
  /\ last = NoDispatch
  /\ NoSession

MutateFiles == \E call \in MutatingCalls : InvokeHandler(call)

SetFileAccess == \E call \in FileAccessCalls : InvokeHandler(call)

NextFiles == MutateFiles \/ SetFileAccess

SpecFiles == InitFiles /\ [][NextFiles]_vars

(***************************************************************************)
(* C27: file handlers and the privacy settings                             *)
(***************************************************************************)
FileMutators == {"_create_file", "_create_directory", "_delete_item", "_delete_directory"}

\* C27, as stated: a file-mutating handler called while file system access
\* is disabled, or on a path that is sensitive, leaves the filesystem as it
\* was.
C27_FileAccessGuarded ==
  [][(/\ last'.op = "handler"
      /\ last'.called[1] \in FileMutators
      /\ last'.calls # <<>>
      /\ ~secure_file_access(privacy_settings, _resolve_path(last'.calls[1].arg)))
       => fs' = fs]_vars

(***************************************************************************)
(* C30: create_file on a path that holds a file                            *)
(***************************************************************************)
\* what the files of f at path p hold
Contents(f, p) == {e.content : e \in {x \in f : x.path = p /\ x.kind = "file"}}

\* C30, as stated: when a handler has called create_file for a path where
\* a file existed, the file holds after the call what it held before.
C30_ExistingFileKept ==
  [][(/\ last'.op = "handler"
      /\ last'.calls # <<>>
      /\ last'.calls[1].fn = "create_file"
      /\ IsFile(fs, _resolve_path(last'.calls[1].arg)))
       => Contents(fs', _resolve_path(last'.calls[1].arg))
            = Contents(fs, _resolve_path(last'.calls[1].arg))]_vars

(***************************************************************************)
(* C28: the shutdown command                                               *)
(***************************************************************************)
ShutdownWords == {"exit", "quit", "shutdown", "bye", "goodbye"}

\* C28: when one of the shutdown words has been dispatched in the loop of
\* run, _shutdown was entered and spoke the farewell, its SystemExit left
\* process_command (no generic error utterance) and run (no utterance of
\* run, status 0), and the process is over: no step follows an exit, so no
\* wake word or command is processed after it.
C28_ShutdownTerminates ==
  /\ [](Handled /\ last.text \in ShutdownWords =>
          /\ last.entered = <<"_shutdown">>
          /\ last.utterances = <<"Shutting down. Goodbye, sir.">>
          /\ last.raised = "SystemExit"
          /\ last.outcome = "SystemExit"
          /\ run.pc = "exited" /\ run.raised = "SystemExit" /\ run.exit = "0"
          /\ run.said = <<>>
          /\ ~running)
  /\ [][run.pc # "exited"]_vars

\* "bye" was heard after the wake word, dispatched, and the process ended
C28_Witness ==
  /\ Handled /\ last.text = "bye"
  /\ last.utterances = <<"Shutting down. Goodbye, sir.">>
  /\ run.pc = "exited" /\ run.raised = "SystemExit"
  /\ ~running

(***************************************************************************)
(* C29: a store that fails                                                 *)
(***************************************************************************)
\* C29, as stated: a store_secure_data that returns False leaves the
\* in-memory secure storage as it was before the call, so get_secure_data
\* does not return the rejected value.
C29_FailedStoreLeavesMemory ==
  [][(sec'.op = "store" /\ ~sec'.ok) =>
       /\ secure_storage' = secure_storage
       /\ get_secure_data(secure_storage', sec'.key) = get_secure_data(secure_storage, sec'.key)]_vars

====
